---- MODULE Spec2Model ----
(***************************************************************************)
(* DexTracker query expression engine (filter.py, module_loader.py).       *)
(*                                                                         *)
(* Python strings are modelled as sequences of one-character strings, so   *)
(* that tokenisation, prefix tests, case folding and number parsing are    *)
(* computed as the code computes them.  A Python exception is modelled by  *)
(* an outcome record whose field `raised` is TRUE.                         *)
(***************************************************************************)
EXTENDS Integers, Sequences, FiniteSets, TLC

\* ------------------------------------------------------------------------
\* Characters and Python string primitives
\* ------------------------------------------------------------------------

LowerAlpha == <<"a","b","c","d","e","f","g","h","i","j","k","l","m",
                "n","o","p","q","r","s","t","u","v","w","x","y","z">>

UpperAlpha == <<"A","B","C","D","E","F","G","H","I","J","K","L","M",
                "N","O","P","Q","R","S","T","U","V","W","X","Y","Z">>

DigitChars == <<"0","1","2","3","4","5","6","7","8","9">>

Range(s) == { s[k] : k \in DOMAIN s }

Whitespace == {" ", "\t"}

\* regex class \w: letters, digits and the underscore
WordChars == Range(LowerAlpha) \cup Range(UpperAlpha) \cup Range(DigitChars) \cup {"_"}

IsWordChar(c) == c \in WordChars

ToLower == [c \in Range(UpperAlpha) |-> LowerAlpha[CHOOSE k \in DOMAIN UpperAlpha : UpperAlpha[k] = c]]

ToUpper == [c \in Range(LowerAlpha) |-> UpperAlpha[CHOOSE k \in DOMAIN LowerAlpha : LowerAlpha[k] = c]]

\* str.lower() on one character
LowerChar(c) == IF c \in DOMAIN ToLower THEN ToLower[c] ELSE c

\* str.upper() on one character
UpperChar(c) == IF c \in DOMAIN ToUpper THEN ToUpper[c] ELSE c

Lower(s) == [k \in DOMAIN s |-> LowerChar(s[k])]

Upper(s) == [k \in DOMAIN s |-> UpperChar(s[k])]

\* s[n:] with 0-based n, as Python slices
Drop(s, n) == IF n >= Len(s) THEN <<>> ELSE SubSeq(s, n + 1, Len(s))

\* s[:n]
Take(s, n) == IF n >= Len(s) THEN s ELSE SubSeq(s, 1, n)

StartsWith(s, p) == Len(p) <= Len(s) /\ SubSeq(s, 1, Len(p)) = p

EndsWith(s, p) == Len(p) <= Len(s) /\ SubSeq(s, Len(s) - Len(p) + 1, Len(s)) = p

\* A local variable assigned once: F applied to the value v.  (The value is
\* computed where it is bound, not where it is used.)
Bind(v, F(_)) == F(v)

\* `sub in s`
Contains(s, sub) ==
  \E k \in 0..(Len(s) - Len(sub)) : SubSeq(s, k + 1, k + Len(sub)) = sub

\* 0-based index of the first occurrence of sub in s, or -1 (str.find)
Find(s, sub) ==
  IF Contains(s, sub)
    THEN CHOOSE k \in 0..(Len(s) - Len(sub)) :
           /\ SubSeq(s, k + 1, k + Len(sub)) = sub
           /\ \A j \in 0..(k - 1) : SubSeq(s, j + 1, j + Len(sub)) # sub
    ELSE -1

RECURSIVE LStrip(_)
LStrip(s) == IF s # <<>> /\ Head(s) \in Whitespace THEN LStrip(Tail(s)) ELSE s

RECURSIVE RStrip(_)
RStrip(s) ==
  IF s # <<>> /\ s[Len(s)] \in Whitespace THEN RStrip(SubSeq(s, 1, Len(s) - 1)) ELSE s

\* str.strip()
Strip(s) == RStrip(LStrip(s))

\* str.split(sep) for a one-character separator: never drops empty fields
RECURSIVE SplitOn(_, _)
SplitOn(s, sep) ==
  Bind(Find(s, <<sep>>), LAMBDA k :
    IF k = -1 THEN <<s>> ELSE <<Take(s, k)>> \o SplitOn(Drop(s, k + 1), sep))

\* str.split(sep, 1) for a separator string that occurs in s
SplitOnce(s, sep) ==
  Bind(Find(s, sep), LAMBDA k :
    IF k = -1 THEN <<s>> ELSE <<Take(s, k), Drop(s, k + Len(sep))>>)

\* str.split(): fields separated by runs of whitespace, no empty field
RECURSIVE SplitWs(_)
SplitWs(s) ==
  Bind(LStrip(s), LAMBDA t :
    IF t = <<>> THEN <<>>
    ELSE Bind(IF \E k \in DOMAIN t : t[k] \in Whitespace
                THEN (CHOOSE k \in DOMAIN t :
                        /\ t[k] \in Whitespace
                        /\ \A j \in 1..(k - 1) : t[j] \notin Whitespace) - 1
                ELSE Len(t),
              LAMBDA n : <<Take(t, n)>> \o SplitWs(Drop(t, n))))

\* str.replace(old, new): leftmost non-overlapping occurrences
RECURSIVE Replace(_, _, _)
Replace(s, old, new) ==
  Bind(Find(s, old), LAMBDA k :
    IF k = -1 THEN s
    ELSE Take(s, k) \o new \o Replace(Drop(s, k + Len(old)), old, new))

\* ------------------------------------------------------------------------
\* Tokenisation
\* ------------------------------------------------------------------------

OperatorWords == { <<"O","R">>, <<"N","O","T">>, <<"X","O","R">> }

\* The operator word that stands at the 0-based position k of s as a whole
\* word, if any: the character before it (prev at the start of s) and the
\* character after it are no word characters
WordAt(s, prev, k) ==
  { w \in OperatorWords :
      /\ k + Len(w) <= Len(s) /\ Upper(SubSeq(s, k + 1, k + Len(w))) = w
      /\ (IF k = 0 THEN prev = "" \/ ~IsWordChar(prev) ELSE ~IsWordChar(s[k]))
      /\ (k + Len(w) = Len(s) \/ ~IsWordChar(s[k + Len(w) + 1])) }

\* re.sub(r"\b(OR|NOT|XOR)\b", r" \1 ", s, flags=re.IGNORECASE) on the rest
\* s of the string; prev is the character before it ("" at the start)
RECURSIVE PadOperatorWords(_, _)
PadOperatorWords(s, prev) ==
  Bind({ k \in 0..(Len(s) - 1) : WordAt(s, prev, k) # {} }, LAMBDA hits :
    IF hits = {} THEN s
    ELSE Bind(CHOOSE k \in hits : \A j \in hits : k <= j, LAMBDA k :
         Bind(CHOOSE w \in WordAt(s, prev, k) : TRUE, LAMBDA w :
           Take(s, k) \o <<" ">> \o SubSeq(s, k + 1, k + Len(w)) \o <<" ">>
             \o PadOperatorWords(Drop(s, k + Len(w)), s[k + Len(w)]))))

\* tokenize without the step that pads `||`
tokenize_without_bars(s) ==
  LET s1 == Replace(Replace(s, <<"(">>, <<" ","("," ">>), <<")">>, <<" ",")"," ">>)
      s2 == Replace(s1, <<"!">>, <<" ","!"," ">>)
      s3 == PadOperatorWords(s2, "")
  IN SplitWs(s3)

tokenize(s) ==
  LET s1 == Replace(Replace(s, <<"(">>, <<" ","("," ">>), <<")">>, <<" ",")"," ">>)
      s2 == Replace(s1, <<"!">>, <<" ","!"," ">>)
      s3 == PadOperatorWords(s2, "")
      s4 == Replace(s3, <<"|","|">>, <<" ","|","|"," ">>)
  IN SplitWs(s4)

\* ------------------------------------------------------------------------
\* Numbers: float(text)
\* ------------------------------------------------------------------------

\* A decimal number m / 10^e.  Dex numbers and stat values are short decimal
\* texts, on which Python's float comparison agrees with exact comparison.
Num(m, e) == [m |-> m, e |-> e]

RECURSIVE Pow10(_)
Pow10(n) == IF n = 0 THEN 1 ELSE 10 * Pow10(n - 1)

NumLeq(a, b) == a.m * Pow10(b.e) <= b.m * Pow10(a.e)

NumLt(a, b) == a.m * Pow10(b.e) < b.m * Pow10(a.e)

NumEq(a, b) == a.m * Pow10(b.e) = b.m * Pow10(a.e)

NumAdd(a, b) ==
  LET e == IF a.e >= b.e THEN a.e ELSE b.e
  IN Num(a.m * Pow10(e - a.e) + b.m * Pow10(e - b.e), e)

IsDigit(c) == c \in Range(DigitChars)

DigitVal(c) == (CHOOSE k \in DOMAIN DigitChars : DigitChars[k] = c) - 1

RECURSIVE DigitsVal(_)
DigitsVal(s) ==
  IF s = <<>> THEN 0 ELSE 10 * DigitsVal(SubSeq(s, 1, Len(s) - 1)) + DigitVal(s[Len(s)])

AllDigits(s) == \A k \in DOMAIN s : IsDigit(s[k])

\* float(text): surrounding whitespace is ignored, an optional sign, then
\* digits with at most one point and at least one digit.  The texts the
\* model feeds it hold no exponent, underscore, "inf" or "nan" form.
\* raised = TRUE models ValueError.
ParseFloat(text) ==
  Bind(Strip(text), LAMBDA t :
  Bind(IF t # <<>> /\ Head(t) \in {"-", "+"} THEN Tail(t) ELSE t, LAMBDA body :
  Bind(Find(body, <<".">>), LAMBDA k :
  Bind(IF k = -1 THEN body ELSE Take(body, k), LAMBDA ip :
  Bind(IF k = -1 THEN <<>> ELSE Drop(body, k + 1), LAMBDA fp :
    IF AllDigits(ip) /\ AllDigits(fp) /\ Len(ip) + Len(fp) >= 1
      THEN Bind(DigitsVal(ip \o fp), LAMBDA mag :
             [raised |-> FALSE,
              v |-> Num(IF t # <<>> /\ Head(t) = "-" THEN 0 - mag ELSE mag, Len(fp))])
      ELSE [raised |-> TRUE, v |-> Num(0, 0)])))))

\* str(n) for a natural number
RECURSIVE IntToStr(_)
IntToStr(n) ==
  IF n < 10 THEN <<DigitChars[n + 1]>> ELSE IntToStr(n \div 10) \o <<DigitChars[(n % 10) + 1]>>

\* ------------------------------------------------------------------------
\* Entries (data.Item) and the entry store (dex_adapter._items_dict)
\* ------------------------------------------------------------------------

\* The two gender glyphs are single characters of the form label.
FemaleGlyph == "U+2640"

MaleGlyph == "U+2642"

\* A JSON number held by an entry (stats values, numeric evolution references)
JNum(n) == [isnum |-> TRUE, n |-> n, text |-> <<>>]

\* A JSON string held by an entry
JStr(t) == [isnum |-> FALSE, n |-> 0, text |-> t]

\* float(v) of a JSON scalar
FloatOf(v) == IF v.isnum THEN [raised |-> FALSE, v |-> Num(v.n, 0)] ELSE ParseFloat(v.text)

\* str(v) of a JSON scalar
StrOf(v) == IF v.isnum THEN IntToStr(v.n) ELSE v.text

\* Default marks of an entry
default_marks ==
  [flag |-> FALSE, lock |-> FALSE, source |-> <<"n","o","n","e",".","p","n","g">>, origin |-> <<"n","o","n","e",".","p","n","g">>,
   color |-> <<"g","r","a","y">>, released |-> TRUE]

Item(name, form, number, categories, stats, games, evolutions, has_alternate) ==
  [name |-> name, form |-> form, number |-> number, categories |-> categories,
   stats |-> stats, tags |-> <<>>, marks |-> default_marks, games |-> games,
   evolutions |-> evolutions, has_alternate |-> has_alternate]

\* Python's None where a text is optional
None == [none |-> TRUE, s |-> <<>>]

Some(s) == [none |-> FALSE, s |-> s]

\* Verdicts of a predicate applied to an entry: the two booleans, or an
\* exception raised while it ran.
V_True == "True"

V_False == "False"

V_Raise == "Raise"

BoolV(b) == IF b THEN V_True ELSE V_False

\* dex_adapter.get_pokemon_info / get_items_dict().get(key) over the store:
\* the last entry of that number, or absent
HasItem(store, key) == \E k \in DOMAIN store : store[k].number = key

GetItem(store, key) ==
  store[CHOOSE k \in DOMAIN store :
          /\ store[k].number = key
          /\ \A j \in DOMAIN store : j > k => store[j].number # key]

\* ------------------------------------------------------------------------
\* Utility helpers and primitive matchers
\* ------------------------------------------------------------------------

normalize_str(s) == Replace(Replace(Lower(s), <<"-">>, <<>>), <<" ">>, <<>>)

normalize_method(m) ==
  Bind(Lower(m), LAMBDA m_low :
    IF m_low \in {<<"g","r","a","s","s">>, <<"t","a","l","l","g","r","a","s","s">>} THEN <<"w","a","l","k">> ELSE m_low)

match_name_filter(item, value) == BoolV(Contains(Lower(item.name), value))

match_number_filter(item, value) == BoolV(item.number = value)

match_number_str_filter(item, value) == BoolV(item.number = value)

match_category_filter(item, value) ==
  BoolV(\E k \in DOMAIN item.categories : Contains(Lower(item.categories[k]), value))

match_tag_filter(item, value) ==
  BoolV(\E k \in DOMAIN item.tags : Contains(Lower(item.tags[k]), value))

\* match_form_filter whose keyword `base` does not ask for an alternate form
match_form_filter_base_any(item, value) ==
  IF value.none THEN BoolV(Contains(item.number, <<".">>))
  ELSE Bind(Lower(value.s), LAMBDA lower_val :
       Bind(Lower(item.form), LAMBDA form_low :
          CASE lower_val = <<"v","a","r","i","a","n","t">> -> BoolV(Contains(item.number, <<".">>))
            [] lower_val = <<"b","a","s","e">> -> BoolV(~Contains(item.number, <<".">>))
            [] lower_val \in {<<"a","l","l">>, <<"a","n","y">>} -> BoolV(item.has_alternate)
            [] lower_val = <<"n","o","n","e">> -> BoolV(~item.has_alternate)
            [] lower_val = <<"g","e","n","d","e","r">> ->
                 BoolV(MaleGlyph \in Range(item.form) \/ FemaleGlyph \in Range(item.form))
            [] lower_val = <<"m","a","l","e">> ->
                 BoolV(\/ MaleGlyph \in Range(item.form)
                       \/ (Contains(form_low, <<"m","a","l","e">>) /\ ~Contains(form_low, <<"f","e","m","a","l","e">>)))
            [] lower_val = <<"f","e","m","a","l","e">> ->
                 BoolV(FemaleGlyph \in Range(item.form) \/ Contains(form_low, <<"f","e","m","a","l","e">>))
            [] OTHER -> BoolV(Contains(form_low, lower_val))))

\* value is None or Some(text)
match_form_filter(item, value) ==
  IF value.none THEN BoolV(Contains(item.number, <<".">>))
  ELSE Bind(Lower(value.s), LAMBDA lower_val :
       Bind(Lower(item.form), LAMBDA form_low :
          CASE lower_val = <<"v","a","r","i","a","n","t">> -> BoolV(Contains(item.number, <<".">>))
            [] lower_val = <<"b","a","s","e">> -> BoolV(~Contains(item.number, <<".">>) /\ item.has_alternate)
            [] lower_val \in {<<"a","l","l">>, <<"a","n","y">>} -> BoolV(item.has_alternate)
            [] lower_val = <<"n","o","n","e">> -> BoolV(~item.has_alternate)
            [] lower_val = <<"g","e","n","d","e","r">> ->
                 BoolV(MaleGlyph \in Range(item.form) \/ FemaleGlyph \in Range(item.form))
            [] lower_val = <<"m","a","l","e">> ->
                 BoolV(\/ MaleGlyph \in Range(item.form)
                       \/ (Contains(form_low, <<"m","a","l","e">>) /\ ~Contains(form_low, <<"f","e","m","a","l","e">>)))
            [] lower_val = <<"f","e","m","a","l","e">> ->
                 BoolV(FemaleGlyph \in Range(item.form) \/ Contains(form_low, <<"f","e","m","a","l","e">>))
            [] OTHER -> BoolV(Contains(form_low, lower_val))))

\* str(v).lower() of each value of item.marks
MarkTexts(marks) ==
  { IF marks.flag THEN <<"t","r","u","e">> ELSE <<"f","a","l","s","e">>,
    IF marks.lock THEN <<"t","r","u","e">> ELSE <<"f","a","l","s","e">>,
    IF marks.released THEN <<"t","r","u","e">> ELSE <<"f","a","l","s","e">>,
    Lower(marks.source), Lower(marks.origin), Lower(marks.color) }

match_mark_filter(item, value) ==
  IF value.none THEN BoolV(item.marks.flag \/ item.marks.lock)
  ELSE BoolV(\E t \in MarkTexts(item.marks) : Contains(t, value.s))

match_color_filter(item, value) ==
  IF value.none THEN BoolV(Lower(item.marks.color) # <<"g","r","a","y">>)
  ELSE BoolV(Lower(item.marks.color) = value.s)

\* float(item.stats.get(k, 0))
StatFloat(item, k) ==
  IF k \in DOMAIN item.stats THEN FloatOf(item.stats[k])
  ELSE [raised |-> FALSE, v |-> Num(0, 0)]

TotalStats == <<<<"a","t","k">>, <<"d","e","f">>, <<"s","p","d">>, <<"s","p","a","t","k">>, <<"s","p","d","e","f">>, <<"h","p">>>>

RECURSIVE SumStats(_, _)
SumStats(item, names) ==
  IF names = <<>> THEN [raised |-> FALSE, v |-> Num(0, 0)]
  ELSE Bind(StatFloat(item, Head(names)), LAMBDA h :
       Bind(SumStats(item, Tail(names)), LAMBDA t :
          IF h.raised \/ t.raised THEN [raised |-> TRUE, v |-> Num(0, 0)]
          ELSE [raised |-> FALSE, v |-> NumAdd(h.v, t.v)]))

\* match_stat_filter whose `>=` demands strictly more than the target
match_stat_filter_strict(item, criteria) ==
  Bind(IF criteria.stat_name = <<"t","o","t","a","l">> THEN SumStats(item, TotalStats)
       ELSE StatFloat(item, criteria.stat_name), LAMBDA stat_value :
  Bind(criteria.target_value, LAMBDA t :
     IF stat_value.raised THEN V_Raise
     ELSE CASE criteria.operator = <<">">>  -> BoolV(NumLt(t, stat_value.v))
            [] criteria.operator = <<">","=">> -> BoolV(NumLt(t, stat_value.v))
            [] criteria.operator = <<"<">>  -> BoolV(NumLt(stat_value.v, t))
            [] criteria.operator = <<"<","=">> -> BoolV(NumLeq(stat_value.v, t))
            [] criteria.operator = <<"=">>  -> BoolV(NumEq(stat_value.v, t))
            [] OTHER -> V_Raise))

\* criteria is [stat_name, operator, target_value]
match_stat_filter(item, criteria) ==
  Bind(IF criteria.stat_name = <<"t","o","t","a","l">> THEN SumStats(item, TotalStats)
       ELSE StatFloat(item, criteria.stat_name), LAMBDA stat_value :
  Bind(criteria.target_value, LAMBDA t :
     IF stat_value.raised THEN V_Raise
     ELSE CASE criteria.operator = <<">">>  -> BoolV(NumLt(t, stat_value.v))
            [] criteria.operator = <<">","=">> -> BoolV(NumLeq(t, stat_value.v))
            [] criteria.operator = <<"<">>  -> BoolV(NumLt(stat_value.v, t))
            [] criteria.operator = <<"<","=">> -> BoolV(NumLeq(stat_value.v, t))
            [] criteria.operator = <<"=">>  -> BoolV(NumEq(stat_value.v, t))
            [] OTHER -> V_Raise))

HasMethod(g, method_norm) ==
  \E k \in DOMAIN g.encounter_methods : normalize_method(g.encounter_methods[k]) = method_norm

\* game_method is [game, method] with method None or Some(text)
match_in_filter(item, game_method) ==
  LET game_norm == normalize_str(game_method.game)
      no_method == game_method.method.none \/ game_method.method.s = <<>>
  IN BoolV(\E k \in DOMAIN item.games :
             /\ normalize_str(item.games[k].game) = game_norm
             /\ (no_method \/ HasMethod(item.games[k], normalize_method(game_method.method.s))))

match_method_filter(item, method_value) ==
  BoolV(\E k \in DOMAIN item.games : HasMethod(item.games[k], normalize_method(method_value)))

\* match_source_filter that looks at the game names only
match_source_filter_games_only(item, source_value) ==
  BoolV(\E k \in DOMAIN item.games :
          normalize_str(item.games[k].game) = normalize_str(source_value))

match_source_filter(item, source_value) ==
  BoolV(\E k \in DOMAIN item.games :
          \/ normalize_str(item.games[k].game) = normalize_str(source_value)
          \/ HasMethod(item.games[k], normalize_method(source_value)))

\* An evolution reference compared by its raw text only, never looked up
EvolRefMatches_raw_only(store, evo_ref, evol_sub) ==
  Contains(Lower(StrOf(evo_ref)), evol_sub)

\* One evolution reference: a JSON number is looked up by str(int(ref)), a
\* JSON string that float() accepts by itself; a resolved entry is compared
\* by name, anything else by its raw text.
EvolRefMatches(store, evo_ref, evol_sub) ==
  Bind(StrOf(evo_ref), LAMBDA key :
    IF (evo_ref.isnum \/ ~ParseFloat(evo_ref.text).raised) /\ HasItem(store, key)
      THEN Contains(Lower(GetItem(store, key).name), evol_sub)
      ELSE Contains(Lower(key), evol_sub))

match_evol_filter(store, item, evol_sub) ==
  BoolV(\E k \in DOMAIN item.evolutions :
          EvolRefMatches(store, item.evolutions[k], Lower(evol_sub)))

\* match_number_range_filter that lets the variants of a range through
\* whether or not the term ends in f
match_number_range_filter_with_forms(item, criteria) ==
  Bind(ParseFloat(item.number), LAMBDA num :
    IF num.raised THEN V_False
    ELSE IF ~(NumLeq(criteria.start, num.v) /\ NumLeq(num.v, criteria.end)) THEN V_False
    ELSE V_True)

\* criteria is [start, end, include_forms]
match_number_range_filter(item, criteria) ==
  Bind(ParseFloat(item.number), LAMBDA num :
    IF num.raised THEN V_False
    ELSE IF ~(NumLeq(criteria.start, num.v) /\ NumLeq(num.v, criteria.end)) THEN V_False
    ELSE IF ~criteria.include_forms /\ Contains(item.number, <<".">>) THEN V_False
    ELSE V_True)

\* ------------------------------------------------------------------------
\* module_loader.py: rule document -> filter string
\* ------------------------------------------------------------------------

REGION_RANGES ==
  << [name |-> <<"K","a","n","t","o">>,   start |-> 1,   end |-> 151],
     [name |-> <<"J","o","h","t","o">>,   start |-> 152, end |-> 251],
     [name |-> <<"H","o","e","n","n">>,   start |-> 252, end |-> 386],
     [name |-> <<"S","i","n","n","o","h">>,  start |-> 387, end |-> 493],
     [name |-> <<"U","n","o","v","a">>,   start |-> 494, end |-> 649],
     [name |-> <<"K","a","l","o","s">>,   start |-> 650, end |-> 721],
     [name |-> <<"A","l","o","l","a">>,   start |-> 722, end |-> 807],
     [name |-> <<"U","n","k","n","o","w","n">>, start |-> 808, end |-> 809],
     [name |-> <<"G","a","l","a","r">>,   start |-> 810, end |-> 898],
     [name |-> <<"H","i","s","u","i">>,   start |-> 899, end |-> 905],
     [name |-> <<"P","a","l","d","e","a">>,  start |-> 906, end |-> 1025] >>

\* sep.join(parts)
RECURSIVE Join(_, _)
Join(parts, sep) ==
  IF parts = <<>> THEN <<>>
  ELSE IF Len(parts) = 1 THEN parts[1]
  ELSE parts[1] \o sep \o Join(Tail(parts), sep)

\* A rule dictionary is a sequence of [key, inc] pairs in document order.
\* [f(key) for key, inc in d.items() if not inc], where f(key) is a sequence
\* of terms
RECURSIVE Disabled(_)
Disabled(d) ==
  IF d = <<>> THEN <<>>
  ELSE (IF d[1].inc THEN <<>> ELSE <<d[1].key>>) \o Disabled(Tail(d))

RECURSIVE LowerAll(_)
LowerAll(keys) == IF keys = <<>> THEN <<>> ELSE <<Lower(keys[1])>> \o LowerAll(Tail(keys))

RECURSIVE RegionTerms(_)
RegionTerms(keys) ==
  IF keys = <<>> THEN <<>>
  ELSE Bind({ k \in DOMAIN REGION_RANGES : REGION_RANGES[k].name = keys[1] }, LAMBDA hit :
         IF hit = {} THEN <<>>
         ELSE Bind(REGION_RANGES[CHOOSE k \in hit : TRUE], LAMBDA r :
                << <<"#">> \o IntToStr(r.start) \o <<"-">> \o IntToStr(r.end) \o <<"f">> >>))
       \o RegionTerms(Tail(keys))

RECURSIVE FormTerms(_)
FormTerms(keys) ==
  IF keys = <<>> THEN <<>>
  ELSE << <<"f","o","r","m",":">> \o Lower(keys[1]) >> \o FormTerms(Tail(keys))

SpeciesTerms(keys) ==
  IF keys = <<>> THEN <<>>
  ELSE << <<"(","(">> \o Join(LowerAll(keys), <<" ","O","R"," ">>) \o <<")"," ","A","N","D"," ","f","o","r","m",":","v","a","r","i","a","n","t",")">> >>

HcvSpecial(kl) ==
  CASE kl = <<"g","e","n","d","e","r","_","c","o","s","m","e","t","i","c">> -> << <<"f","o","r","m",":">> \o <<FemaleGlyph>> >>
    [] kl = <<"g","e","n","d","e","r","_","f","o","r","m","s">> -> << <<"f","o","r","m",":","f","e","m","a","l","e">> >>
    [] kl = <<"a","l","c","r","e","m","i","e","_","s","w","e","e","t","s">> -> << <<"#","8","6","9",".","0","1","-","8","6","9",".","0","6","f">> >>
    [] kl = <<"a","l","c","r","e","m","i","e","_","f","u","l","l">> -> << <<"#","8","6","9",".","0","7","-","8","6","9",".","6","2","f">> >>
    [] kl = <<"z","y","g","a","r","d","e">> -> << <<"(","z","y","g","a","r","d","e"," ","A","N","D"," ","f","o","r","m",":","v","a","r","i","a","n","t",")">> >>
    [] kl = <<"z","y","g","a","r","d","e","_","p","o","w","e","r","_","c","o","n","s","t","r","u","c","t">> -> << <<"(","z","y","g","a","r","d","e"," ","A","N","D"," ","f","o","r","m",":","c","o","n","s","t","r","u","c","t",")">> >>
    [] kl = <<"m","i","n","i","o","r","_","c","o","r","e">> -> << <<"(","m","i","n","i","o","r"," ","A","N","D"," ","N","O","T"," ","f","o","r","m",":","m","e","t","e","o","r"," ","A","N","D"," ","f","o","r","m",":","v","a","r","i","a","n","t",")">> >>
    [] kl = <<"p","i","k","a","c","h","u","_","h","a","t">> -> << <<"(","p","i","k","a","c","h","u"," ","A","N","D"," ","f","o","r","m",":","c","a","p",")">> >>
    [] OTHER -> << kl >>

HivSpecial(kl) ==
  CASE kl = <<"f","u","s","i","o","n">> ->
         << <<"#","6","4","6",".","0","1","f">>, <<"#","6","4","6",".","0","2","f">>, <<"#","8","0","0",".","0","1","f">>, <<"#","8","0","0",".","0","2","f">>, <<"#","8","9","8",".","0","1","f">>, <<"#","8","9","8",".","0","2","f">> >>
    [] kl = <<"p","i","k","a","c","h","u","_","c","o","s","p","l","a","y">> -> << <<"#","2","5",".","0","1","-","2","5",".","0","6","f">> >>
    [] kl = <<"l","g","p","e","_","p","a","r","t","n","e","r">> -> << <<"#","2","5",".","1","5">>, <<"#","1","3","3",".","0","1">> >>
    [] kl = <<"f","l","o","e","t","t","e","_","e","t","e","r","n","a","l">> -> << <<"#","6","7","0",".","0","5","f">> >>
    [] kl = <<"m","i","n","i","o","r","_","m","e","t","e","o","r">> -> << <<"(","f","o","r","m",":","m","e","t","e","o","r"," ","A","N","D"," ","f","o","r","m",":","v","a","r","i","a","n","t",")">> >>
    [] kl = <<"t","h","e","r","i","a","n">> -> << <<"f","o","r","m",":","t","h","e","r","i","a","n">> >>
    [] OTHER -> << kl >>

RECURSIVE HcvSpecialTerms(_)
HcvSpecialTerms(keys) ==
  IF keys = <<>> THEN <<>> ELSE HcvSpecial(Lower(keys[1])) \o HcvSpecialTerms(Tail(keys))

RECURSIVE HivSpecialTerms(_)
HivSpecialTerms(keys) ==
  IF keys = <<>> THEN <<>> ELSE HivSpecial(Lower(keys[1])) \o HivSpecialTerms(Tail(keys))

\* The collected exclusion terms, in the order the code appends them
ModuleTokens(mod) ==
  Bind(Strip(mod.filter_constraints), LAMBDA fc :
         IF fc # <<>> THEN << <<"(">> \o fc \o <<")">> >> ELSE <<>>)
     \o RegionTerms(Disabled(mod.regions))
     \o FormTerms(Disabled(mod.hcv_by_form_name))
     \o SpeciesTerms(Disabled(mod.hcv_by_species_name))
     \o HcvSpecialTerms(Disabled(mod.hcv_special_handling))
     \o SpeciesTerms(Disabled(mod.hiv_battle_by_species_name))
     \o FormTerms(Disabled(mod.hiv_battle_by_form_name))
     \o SpeciesTerms(Disabled(mod.hiv_item_by_species_name))
     \o FormTerms(Disabled(mod.hiv_item_by_form_name))
     \o HivSpecialTerms(Disabled(mod.hiv_special_handling))

\* build_module_filter_string without the parentheses around the union
build_module_filter_string_unparenthesised(mod) ==
  Bind(ModuleTokens(mod), LAMBDA tokens :
    IF tokens # <<>> THEN <<"N","O","T"," ">> \o Join(tokens, <<" ","O","R"," ">>) ELSE <<>>)

build_module_filter_string(mod) ==
  Bind(ModuleTokens(mod), LAMBDA tokens :
    IF tokens # <<>> THEN <<"N","O","T"," ","(">> \o Join(tokens, <<" ","O","R"," ">>) \o <<")">> ELSE <<>>)

tokenize_code(s) ==
  LET s1 == Replace(Replace(s, <<"(">>, <<" ","("," ">>), <<")">>, <<" ",")"," ">>)
      s2 == Replace(s1, <<"!">>, <<" ","!"," ">>)
      s3 == PadOperatorWords(s2, "")
      s4 == Replace(s3, <<"|","|">>, <<" ","|","|"," ">>)
  IN SplitWs(s4)

\* ------------------------------------------------------------------------
\* Compiled predicates
\* ------------------------------------------------------------------------

\* A compiled predicate is the tree of the closures (filter.py) or of the
\* generated expression (module_loader.py) that the parser builds.
NoPred == [op |-> "none"]

TruePred == [op |-> "true"]

TermPred(kind, val) == [op |-> "term", kind |-> kind, val |-> val]

NotPred(a) == [op |-> "not", a |-> a]

AndPred(a, b) == [op |-> "and", a |-> a, b |-> b]

XorPred(a, b) == [op |-> "xor", a |-> a, b |-> b]

OrPred(a, b) == [op |-> "or", a |-> a, b |-> b]

\* Outcome of a parsing function: the predicate and the next token index
\* (0-based, as in the code), or an exception
Parsed(f, i) == [raised |-> FALSE, f |-> f, i |-> i]

ParseError == [raised |-> TRUE, f |-> NoPred, i |-> 0]

\* Outcome of _parse_filter_term
TermOf(kind, val) == [raised |-> FALSE, kind |-> kind, val |-> val]

TermError == [raised |-> TRUE, kind |-> "", val |-> 0]

\* toks[i] of the code, i 0-based
Tok(toks, i) == toks[i + 1]

IsNegation(tok) == tok = <<"!">> \/ Upper(tok) = <<"N","O","T">>

\* the index after the run of negation tokens that starts at i
RECURSIVE SkipNegations(_, _)
SkipNegations(toks, i) ==
  IF i < Len(toks) /\ IsNegation(Tok(toks, i)) THEN SkipNegations(toks, i + 1) ELSE i

RECURSIVE _parse_filter_term(_)
RECURSIVE code_parse_or(_, _)
RECURSIVE code_parse_not(_, _)

\* ------------------------------------------------------------------------
\* module_loader.py: the module compiler
\* ------------------------------------------------------------------------

code_for_term(term_type, value) ==
  IF term_type = "module" THEN ParseError ELSE Parsed(TermPred(term_type, value), 0)

code_parse_primary(tokens, i) ==
  IF i >= Len(tokens) THEN ParseError
  ELSE IF Tok(tokens, i) = <<"(">>
    THEN Bind(code_parse_or(tokens, i + 1), LAMBDA r :
           IF r.raised THEN ParseError
           ELSE IF r.i >= Len(tokens) THEN ParseError
           ELSE IF Tok(tokens, r.i) # <<")">> THEN ParseError
           ELSE Parsed(r.f, r.i + 1))
    ELSE Bind(_parse_filter_term(Tok(tokens, i)), LAMBDA t :
           IF t.raised THEN ParseError
           ELSE Bind(code_for_term(t.kind, t.val), LAMBDA c :
                  IF c.raised THEN ParseError ELSE Parsed(c.f, i + 1)))

code_parse_not(tokens, i) ==
  IF i >= Len(tokens) THEN ParseError
  ELSE IF IsNegation(Tok(tokens, i))
    THEN Bind(SkipNegations(tokens, i), LAMBDA j :
           IF j >= Len(tokens) THEN ParseError
           ELSE Bind(code_parse_not(tokens, j), LAMBDA r :
                  IF r.raised THEN ParseError
                  ELSE IF (j - i) % 2 = 1 THEN Parsed(NotPred(r.f), r.i) ELSE r))
    ELSE code_parse_primary(tokens, i)

RECURSIVE code_parse_and_loop(_, _, _)
code_parse_and_loop(tokens, left, i) ==
  IF i < Len(tokens) /\ Tok(tokens, i) \notin {<<")">>, <<"O","R">>, <<"|","|">>, <<"X","O","R">>}
    THEN IF Upper(Tok(tokens, i)) \in {<<"A","N","D">>, <<"&","&">>}
           THEN code_parse_and_loop(tokens, left, i + 1)
           ELSE Bind(code_parse_not(tokens, i), LAMBDA r :
                  IF r.raised THEN ParseError
                  ELSE code_parse_and_loop(tokens, AndPred(left, r.f), r.i))
    ELSE Parsed(left, i)

code_parse_and(tokens, i) ==
  Bind(code_parse_not(tokens, i), LAMBDA r :
    IF r.raised THEN ParseError ELSE code_parse_and_loop(tokens, r.f, r.i))

RECURSIVE code_parse_xor_loop(_, _, _)
code_parse_xor_loop(tokens, left, i) ==
  IF i < Len(tokens) /\ Upper(Tok(tokens, i)) = <<"X","O","R">>
    THEN Bind(code_parse_and(tokens, i + 1), LAMBDA r :
           IF r.raised THEN ParseError
           ELSE code_parse_xor_loop(tokens, XorPred(left, r.f), r.i))
    ELSE Parsed(left, i)

code_parse_xor(tokens, i) ==
  Bind(code_parse_and(tokens, i), LAMBDA r :
    IF r.raised THEN ParseError ELSE code_parse_xor_loop(tokens, r.f, r.i))

RECURSIVE code_parse_or_loop(_, _, _)
code_parse_or_loop(tokens, left, i) ==
  IF i < Len(tokens) /\ Upper(Tok(tokens, i)) \in {<<"O","R">>, <<"|","|">>}
    THEN Bind(code_parse_xor(tokens, i + 1), LAMBDA r :
           IF r.raised THEN ParseError
           ELSE code_parse_or_loop(tokens, OrPred(left, r.f), r.i))
    ELSE Parsed(left, i)

code_parse_or(tokens, i) ==
  Bind(code_parse_xor(tokens, i), LAMBDA r :
    IF r.raised THEN ParseError ELSE code_parse_or_loop(tokens, r.f, r.i))

compile_filter_string(s) ==
  Bind(tokenize_code(s), LAMBDA tokens :
  Bind(code_parse_or(tokens, 0), LAMBDA r :
    IF r.raised THEN ParseError
    ELSE IF r.i # Len(tokens) THEN ParseError
    ELSE r))

\* The function object that exec() of the generated code defines
compile_module_filter(filter_string) ==
  IF Strip(filter_string) = <<>> THEN Parsed(TruePred, 0)
  ELSE compile_filter_string(filter_string)

\* ------------------------------------------------------------------------
\* module_loader.load_module and filter._load_module
\* ------------------------------------------------------------------------

\* A rule document with no rule
BlankModule ==
  [enabled |-> TRUE, filter_constraints |-> <<>>, regions |-> <<>>,
   hcv_by_form_name |-> <<>>, hcv_by_species_name |-> <<>>, hcv_special_handling |-> <<>>,
   hiv_battle_by_species_name |-> <<>>, hiv_battle_by_form_name |-> <<>>,
   hiv_item_by_species_name |-> <<>>, hiv_item_by_form_name |-> <<>>,
   hiv_special_handling |-> <<>>]

\* The files of the modules directory (config.MODULES): file name -> document.
\* "caught" excludes the entries marked as caught, "strong" those whose hp
\* exceeds 1; the constraint of "bad" is no number range, so that the
\* filter string of "bad" does not compile.
ModuleFiles ==
  (<<"m">> :> [BlankModule EXCEPT !.filter_constraints = <<"b">>])
  @@ (<<"o","f","f">> :> [BlankModule EXCEPT !.enabled = FALSE])
  @@ (<<"c","a","u","g","h","t">> :> [BlankModule EXCEPT !.filter_constraints = <<"m","a","r","k">>])
  @@ (<<"s","t","r","o","n","g">> :> [BlankModule EXCEPT !.filter_constraints = <<"s","t","a","t",":","h","p",">","1">>])
  @@ (<<"b","a","d">> :> [BlankModule EXCEPT !.filter_constraints = <<"#","x">>])

NoModule == [none |-> TRUE, raised |-> FALSE, filter_function |-> NoPred, filter_string |-> <<>>]

ModuleError == [none |-> TRUE, raised |-> TRUE, filter_function |-> NoPred, filter_string |-> <<>>]

\* load_module from the point where the document has been read: None for a
\* disabled module; an exception of the compiler propagates.
\* filter_function stands for the compiled function `func`; the `cached`
\* wrapper around it starts with the empty cache each call creates.
LoadDocument(mod) ==
  IF ~mod.enabled THEN NoModule
  ELSE Bind(build_module_filter_string(mod), LAMBDA fs :
       Bind(compile_module_filter(fs), LAMBDA func :
         IF func.raised THEN ModuleError
         ELSE [none |-> FALSE, raised |-> FALSE,
               filter_function |-> func.f, filter_string |-> fs]))

\* load_module: None for a missing file
load_module(module_filename) ==
  IF module_filename \notin DOMAIN ModuleFiles THEN NoModule
  ELSE LoadDocument(ModuleFiles[module_filename])

\* filter._load_module: module_loader.load_module, then data.load_module (the
\* same function) when that raised; None when both raise
_load_module(filename) ==
  Bind(load_module(filename), LAMBDA first :
    IF ~first.raised THEN first
    ELSE Bind(load_module(filename), LAMBDA second :
           IF ~second.raised THEN second ELSE NoModule))

\* ------------------------------------------------------------------------
\* filter.py: term parser
\* ------------------------------------------------------------------------

\* "#..." of _parse_filter_term
ParseNumberRange(term) ==
  Bind(Strip(Drop(term, 1)), LAMBDA token0 :
  Bind(EndsWith(token0, <<"f">>), LAMBDA include_forms :
  Bind(IF include_forms THEN Take(token0, Len(token0) - 1) ELSE token0, LAMBDA token :
    IF Contains(token, <<"-">>)
      THEN Bind(SplitOn(token, "-"), LAMBDA parts :
             IF Len(parts) # 2 THEN TermError
             ELSE Bind(ParseFloat(parts[1]), LAMBDA a :
                  Bind(ParseFloat(parts[2]), LAMBDA b :
                    IF a.raised \/ b.raised THEN TermError
                    ELSE TermOf("number_range",
                                [start |-> a.v, end |-> b.v, include_forms |-> include_forms]))))
      ELSE Bind(ParseFloat(token), LAMBDA a :
             IF a.raised THEN TermError
             ELSE TermOf("number_range",
                         [start |-> a.v, end |-> a.v, include_forms |-> include_forms])))))

StatOps == << <<"<","=">>, <<">","=">>, <<"<">>, <<">">>, <<"=">> >>

\* "stat:..." of _parse_filter_term
ParseStat(low) ==
  Bind(Drop(low, 5), LAMBDA stat_expr :
  Bind({ k \in DOMAIN StatOps : Contains(stat_expr, StatOps[k]) }, LAMBDA present :
    IF present = {} THEN TermError
    ELSE Bind(StatOps[CHOOSE k \in present : \A j \in present : k <= j], LAMBDA op :
         Bind(SplitOnce(stat_expr, op), LAMBDA parts :
         Bind(Strip(parts[1]), LAMBDA name0 :
         Bind(ParseFloat(Strip(parts[2])), LAMBDA val :
           IF val.raised THEN TermError
           ELSE TermOf("stat", [stat_name |-> CASE name0 = <<"s","a","t">> -> <<"s","p","a","t","k">>
                                                [] name0 = <<"s","d","f">> -> <<"s","p","d","e","f">>
                                                [] OTHER -> name0,
                                operator |-> op,
                                target_value |-> val.v])))))))

\* re.match(r"^\d+(\.\d+)?$", value)
IsPlainNumber(value) ==
  Bind(Find(value, <<".">>), LAMBDA k :
    IF k = -1 THEN value # <<>> /\ AllDigits(value)
    ELSE /\ k >= 1 /\ AllDigits(Take(value, k))
         /\ Len(value) > k + 1 /\ AllDigits(Drop(value, k + 1)))

_parse_filter_term(term) ==
  Bind(Strip(Lower(term)), LAMBDA low :
     CASE StartsWith(low, <<"@">>) -> TermOf("category", Strip(Drop(term, 1)))
       [] StartsWith(term, <<"#">>) -> ParseNumberRange(term)
       [] StartsWith(low, <<"i","n",":">>) ->
            Bind(SplitOn(Drop(term, 3), ":"), LAMBDA parts :
              TermOf("in", [game |-> Strip(parts[1]),
                            method |-> IF Len(parts) > 1 THEN Some(Strip(parts[2])) ELSE None]))
       [] StartsWith(low, <<"m","e","t","h","o","d",":">>) -> TermOf("method", Strip(Drop(term, 7)))
       [] StartsWith(low, <<"s","o","u","r","c","e",":">>) -> TermOf("source", Strip(Drop(term, 7)))
       [] StartsWith(term, <<"+">>) -> TermOf("evol", Strip(Drop(term, 1)))
       [] StartsWith(low, <<"m","o","d","u","l","e",":">>) ->
            Bind(_load_module(Strip(Drop(term, 7))), LAMBDA mod_data :
              IF mod_data.none THEN TermOf("module", [none |-> TRUE, f |-> NoPred])
              ELSE TermOf("module", [none |-> FALSE, f |-> mod_data.filter_function]))
       [] StartsWith(low, <<"n","u","m",":">>) ->
            Bind(Strip(Drop(term, 4)), LAMBDA value :
              IF IsPlainNumber(value) THEN TermOf("number", value)
              ELSE TermOf("number_str", value))
       [] StartsWith(low, <<"n","a","m","e",":">>) -> TermOf("name", Drop(low, 5))
       [] StartsWith(low, <<"c","a","t",":">>) -> TermOf("category", Drop(low, 4))
       [] StartsWith(low, <<"t","a","g",":">>) -> TermOf("tag", Drop(low, 4))
       [] StartsWith(low, <<"f","o","r","m",":">>) ->
            Bind(Strip(Drop(term, 5)), LAMBDA v :
              TermOf("form", IF v = <<>> THEN None ELSE Some(v)))
       [] StartsWith(low, <<"m","a","r","k",":">>) -> TermOf("mark", Some(Drop(low, 5)))
       [] low = <<"m","a","r","k">> -> TermOf("mark", None)
       [] StartsWith(low, <<"c","o","l","o","r",":">>) -> TermOf("color", Some(Drop(low, 6)))
       [] low = <<"c","o","l","o","r">> -> TermOf("color", None)
       [] StartsWith(low, <<"s","t","a","t",":">>) -> ParseStat(low)
       [] OTHER -> TermOf("name", low))
\* ------------------------------------------------------------------------
\* filter.py: recursive-descent parser
\* ------------------------------------------------------------------------

RECURSIVE _parse_or(_, _)
RECURSIVE _parse_not(_, _)

_parse_primary(toks, i) ==
  IF i >= Len(toks) THEN ParseError
  ELSE IF Tok(toks, i) = <<"(">>
    THEN Bind(_parse_or(toks, i + 1), LAMBDA r :
           IF r.raised THEN ParseError
           ELSE IF r.i >= Len(toks) \/ Tok(toks, r.i) # <<")">> THEN ParseError
           ELSE Parsed(r.f, r.i + 1))
    ELSE Bind(_parse_filter_term(Tok(toks, i)), LAMBDA t :
           IF t.raised THEN ParseError
           ELSE Parsed(TermPred(t.kind, t.val), i + 1))

_parse_not(toks, i) ==
  IF i < Len(toks) /\ IsNegation(Tok(toks, i))
    THEN Bind(_parse_not(toks, SkipNegations(toks, i)), LAMBDA r :
           IF r.raised THEN ParseError ELSE Parsed(NotPred(r.f), r.i))
    ELSE _parse_primary(toks, i)

RECURSIVE _parse_and_loop(_, _, _)
_parse_and_loop(toks, l, i) ==
  IF i < Len(toks) /\ Tok(toks, i) \notin {<<")">>, <<"O","R">>, <<"|","|">>, <<"X","O","R">>}
    THEN IF Upper(Tok(toks, i)) \in {<<"A","N","D">>, <<"&","&">>}
           THEN _parse_and_loop(toks, l, i + 1)
           ELSE Bind(_parse_not(toks, i), LAMBDA r :
                  IF r.raised THEN ParseError
                  ELSE _parse_and_loop(toks, AndPred(l, r.f), r.i))
    ELSE Parsed(l, i)

_parse_and(toks, i) ==
  Bind(_parse_not(toks, i), LAMBDA r :
    IF r.raised THEN ParseError ELSE _parse_and_loop(toks, r.f, r.i))

RECURSIVE _parse_xor_loop(_, _, _)
_parse_xor_loop(toks, l, i) ==
  IF i < Len(toks) /\ Upper(Tok(toks, i)) = <<"X","O","R">>
    THEN Bind(_parse_and(toks, i + 1), LAMBDA r :
           IF r.raised THEN ParseError
           ELSE _parse_xor_loop(toks, XorPred(l, r.f), r.i))
    ELSE Parsed(l, i)

\* _parse_xor with its operands parsed one level too low, so that the
\* conjunction level is skipped
_parse_xor_skipping_and(toks, i) ==
  Bind(_parse_not(toks, i), LAMBDA r :
    IF r.raised THEN ParseError ELSE _parse_xor_loop(toks, r.f, r.i))

_parse_xor(toks, i) ==
  Bind(_parse_and(toks, i), LAMBDA r :
    IF r.raised THEN ParseError ELSE _parse_xor_loop(toks, r.f, r.i))

RECURSIVE _parse_or_loop(_, _, _)
_parse_or_loop(toks, l, i) ==
  IF i < Len(toks) /\ Upper(Tok(toks, i)) \in {<<"O","R">>, <<"|","|">>}
    THEN Bind(_parse_xor(toks, i + 1), LAMBDA r :
           IF r.raised THEN ParseError
           ELSE _parse_or_loop(toks, OrPred(l, r.f), r.i))
    ELSE Parsed(l, i)

_parse_or(toks, i) ==
  Bind(_parse_xor(toks, i), LAMBDA r :
    IF r.raised THEN ParseError ELSE _parse_or_loop(toks, r.f, r.i))

\* _parse_expression that returns what _parse_or parsed wherever it stopped
_parse_expression_unchecked(tokens) ==
  Bind(_parse_or(tokens, 0), LAMBDA r :
    IF r.raised THEN ParseError ELSE r)

_parse_expression(tokens) ==
  Bind(_parse_or(tokens, 0), LAMBDA r :
    IF r.raised THEN ParseError
    ELSE IF r.i # Len(tokens) THEN ParseError
    ELSE r)

\* ------------------------------------------------------------------------
\* Applying a compiled predicate to an entry
\* ------------------------------------------------------------------------

RECURSIVE Eval(_, _, _)

\* match_module_filter that rejects every entry when there is no module
match_module_filter_rejecting(store, item, func) ==
  IF func.none THEN V_False ELSE Eval(store, func.f, item)

match_module_filter(store, item, func) ==
  IF func.none THEN V_True ELSE Eval(store, func.f, item)

\* mapping[term_type](itm, val)
ApplyTerm(store, kind, val, item) ==
  CASE kind = "name"         -> match_name_filter(item, val)
    [] kind = "number"       -> match_number_filter(item, val)
    [] kind = "number_str"   -> match_number_str_filter(item, val)
    [] kind = "number_range" -> match_number_range_filter(item, val)
    [] kind = "category"     -> match_category_filter(item, val)
    [] kind = "tag"          -> match_tag_filter(item, val)
    [] kind = "form"         -> match_form_filter(item, val)
    [] kind = "mark"         -> match_mark_filter(item, val)
    [] kind = "color"        -> match_color_filter(item, val)
    [] kind = "stat"         -> match_stat_filter(item, val)
    [] kind = "in"           -> match_in_filter(item, val)
    [] kind = "method"       -> match_method_filter(item, val)
    [] kind = "source"       -> match_source_filter(item, val)
    [] kind = "evol"         -> match_evol_filter(store, item, val)
    [] kind = "module"       -> match_module_filter(store, item, val)

\* Python's `not`, `and`, `or` and `bool(a) ^ bool(b)` on the closures: the
\* right operand of `and` / `or` runs only when the left one does not decide,
\* and an exception of an operand that runs propagates.
Eval(store, f, item) ==
  CASE f.op = "true" -> V_True
    [] f.op = "term" -> ApplyTerm(store, f.kind, f.val, item)
    [] f.op = "not"  ->
         Bind(Eval(store, f.a, item), LAMBDA a :
           IF a = V_Raise THEN V_Raise ELSE BoolV(a = V_False))
    [] f.op = "and"  ->
         Bind(Eval(store, f.a, item), LAMBDA a :
           IF a = V_True THEN Eval(store, f.b, item) ELSE a)
    [] f.op = "or"   ->
         Bind(Eval(store, f.a, item), LAMBDA a :
           IF a = V_False THEN Eval(store, f.b, item) ELSE a)
    [] f.op = "xor"  ->
         Bind(Eval(store, f.a, item), LAMBDA a :
         Bind(Eval(store, f.b, item), LAMBDA b :
           IF a = V_Raise \/ b = V_Raise THEN V_Raise ELSE BoolV(a # b)))

\* ------------------------------------------------------------------------
\* Evaluation helpers
\* ------------------------------------------------------------------------

_compile(filter_string) == _parse_expression(tokenize(filter_string))

\* None (none = TRUE) when _compile raised
_safe_compile(filter_string) ==
  Bind(_compile(filter_string), LAMBDA r :
    IF r.raised THEN [none |-> TRUE, f |-> NoPred] ELSE [none |-> FALSE, f |-> r.f])

\* Outcome of a call: the returned value, or an exception that left the call
Returned(v) == [raised |-> FALSE, value |-> v]

Raised == [raised |-> TRUE, value |-> <<>>]

\* [itm for itm in items if matcher(itm)]
Comprehension(store, items, f) ==
  IF \E k \in DOMAIN items : Eval(store, f, items[k]) = V_Raise THEN Raised
  ELSE Returned(SelectSeq(items, LAMBDA itm : Eval(store, f, itm) = V_True))

\* filter_items answering a query that does not compile with no entries
filter_items_empty_on_failure(store, items, filter_string0) ==
  Bind(Strip(filter_string0), LAMBDA filter_string :
    IF filter_string = <<>> THEN Returned(items)
    ELSE IF StartsWith(Lower(filter_string), <<"m","o","d","u","l","e",":">>)
      THEN Bind(_load_module(Strip(Drop(filter_string, 7))), LAMBDA mod_data :
             IF mod_data.none THEN Returned(items)
             ELSE Comprehension(store, items, mod_data.filter_function))
      ELSE Bind(_safe_compile(filter_string), LAMBDA matcher :
             IF matcher.none THEN Returned(<<>>)
             ELSE Comprehension(store, items, matcher.f)))

\* filter_items answering a blank query with no entries
filter_items_empty_on_blank(store, items, filter_string0) ==
  Bind(Strip(filter_string0), LAMBDA filter_string :
    IF filter_string = <<>> THEN Returned(<<>>)
    ELSE IF StartsWith(Lower(filter_string), <<"m","o","d","u","l","e",":">>)
      THEN Bind(_load_module(Strip(Drop(filter_string, 7))), LAMBDA mod_data :
             IF mod_data.none THEN Returned(items)
             ELSE Comprehension(store, items, mod_data.filter_function))
      ELSE Bind(_safe_compile(filter_string), LAMBDA matcher :
             IF matcher.none THEN Returned(items)
             ELSE Comprehension(store, items, matcher.f)))

filter_items(store, items, filter_string0) ==
  Bind(Strip(filter_string0), LAMBDA filter_string :
    IF filter_string = <<>> THEN Returned(items)
    ELSE IF StartsWith(Lower(filter_string), <<"m","o","d","u","l","e",":">>)
      THEN Bind(_load_module(Strip(Drop(filter_string, 7))), LAMBDA mod_data :
             IF mod_data.none THEN Returned(items)
             ELSE Comprehension(store, items, mod_data.filter_function))
      ELSE Bind(_safe_compile(filter_string), LAMBDA matcher :
             IF matcher.none THEN Returned(items)
             ELSE Comprehension(store, items, matcher.f)))

\* filter_item without the guard around the application of the predicate
filter_item_unguarded(store, key, filter_string) ==
  IF ~HasItem(store, key) THEN Returned(FALSE)
  ELSE Bind(_safe_compile(filter_string), LAMBDA matcher :
         IF matcher.none THEN Returned(FALSE)
         ELSE Bind(Eval(store, matcher.f, GetItem(store, key)), LAMBDA v :
                IF v = V_Raise THEN Raised ELSE Returned(v = V_True)))

\* item_dict.get("key", "") is the text `key`
filter_item(store, key, filter_string) ==
  IF ~HasItem(store, key) THEN Returned(FALSE)
  ELSE Bind(_safe_compile(filter_string), LAMBDA matcher :
         IF matcher.none THEN Returned(FALSE)
         ELSE Bind(Eval(store, matcher.f, GetItem(store, key)), LAMBDA v :
                IF v = V_Raise THEN Returned(FALSE) ELSE Returned(v = V_True)))


\* ------------------------------------------------------------------------
\* module_loader.load_module: the module object and its `cached` wrapper
\* ------------------------------------------------------------------------

\* No module object (a handle that holds None)
NoObject ==
  [none |-> TRUE, func |-> NoPred, filter_string |-> <<>>, cache |-> <<>>, invoked |-> <<>>]

\* The dictionary load_module returns for a document it compiled: the
\* compiled function, the filter string and the cache of the `cached`
\* closure, empty at creation.  `invoked` counts, per identifier, the calls
\* of func(item) the wrapper has made.
ModuleObject(md) ==
  [none |-> FALSE, func |-> md.filter_function, filter_string |-> md.filter_string,
   cache |-> <<>>, invoked |-> <<>>]

\* d.get(key, 0) of the invocation counts
Invoked(m, key) == IF key \in DOMAIN m.invoked THEN m.invoked[key] ELSE 0

\* One invocation of func(item) more for key
CountInvocation(m, key) == (key :> (Invoked(m, key) + 1)) @@ m.invoked

\* The wrapper that looks the cache up, then evaluates and stores, then
\* evaluates again on every call and overwrites what the cache holds
cached_recomputing(store, m, item) ==
  Bind(item.number, LAMBDA key :
  Bind(Eval(store, m.func, item), LAMBDA res :
    IF res = V_Raise
      THEN [result |-> Raised, module |-> [m EXCEPT !.invoked = CountInvocation(m, key)]]
      ELSE [result |-> Returned(res = V_True),
            module |-> [m EXCEPT !.cache = (key :> (res = V_True)) @@ m.cache,
                                 !.invoked = CountInvocation(m, key)]]))

\* cached(item) of the module object m: the outcome of the call and the
\* module object after it.  An exception of func(item) leaves the call
\* before the cache is written.
cached(store, m, item) ==
  Bind(item.number, LAMBDA key :
    IF key \in DOMAIN m.cache
      THEN [result |-> Returned(m.cache[key]), module |-> m]
      ELSE Bind(Eval(store, m.func, item), LAMBDA res :
             IF res = V_Raise
               THEN [result |-> Raised,
                     module |-> [m EXCEPT !.invoked = CountInvocation(m, key)]]
               ELSE [result |-> Returned(res = V_True),
                     module |-> [m EXCEPT !.cache = (key :> (res = V_True)) @@ m.cache,
                                          !.invoked = CountInvocation(m, key)]]))

\* ------------------------------------------------------------------------
\* data.load_items: the derived attribute has_alternate
\* ------------------------------------------------------------------------

\* item.number.split('.')[0]
BaseOf(number) == SplitOn(number, ".")[1]

\* The entries of the file with has_alternate set: some other entry of the
\* file shares the base of the number
load_items(data_list) ==
  [k \in DOMAIN data_list |->
     [data_list[k] EXCEPT !.has_alternate =
        \E j \in DOMAIN data_list :
          j # k /\ BaseOf(data_list[j].number) = BaseOf(data_list[k].number)]]

\* ------------------------------------------------------------------------
\* dex_adapter.set_pokemon_caught
\* ------------------------------------------------------------------------

\* The entry store after set_pokemon_caught(key, caught); the entries are
\* then saved to the items file, which the engine does not read again
set_pokemon_caught(store, key, caught) ==
  IF ~HasItem(store, key) THEN store
  ELSE [k \in DOMAIN store |->
          IF store[k] = GetItem(store, key)
            THEN [store[k] EXCEPT !.marks.flag = caught]
            ELSE store[k]]
\* ------------------------------------------------------------------------
\* The program state and the calls made on it
\* ------------------------------------------------------------------------

\* Longest query, in keystroke pieces, of the evaluation specification
MaxPieces == 3

\* Longest query of the syntax specification
MaxSyntaxPieces == 4

\* Longest query of the operator-precedence specification
MaxPrecPieces == 5

\* Longest entry sequence passed to filter_items
MaxItems == 2

\* What the user can put into the search box in one step
Lexicon ==
  { <<"a">>, <<" ">>, <<"(">>, <<" ","O","R"," ">>, <<"N","O","T"," ">>, <<"#","1">>, <<"s","t","a","t",":","h","p">>, <<">","1">>, <<"m","o","d","u","l","e",":","m">> }

\* Pieces of the queries that exercise the grammar's operators and parentheses
SyntaxLexicon ==
  { <<"a">>, <<" ">>, <<"(">>, <<")">>, <<"!">>, <<"N","O","T"," ">>, <<"n","o","t"," ">>,
    <<" ","O","R"," ">>, <<" ","o","r"," ">>, <<"|","|">>, <<" ","X","O","R"," ">>, <<" ","A","N","D"," ">>, <<"&","&">> }

\* Pieces of the queries that exercise operator precedence
PrecLexicon == { <<"a">>, <<"b">>, <<" ">>, <<" ","O","R"," ">>, <<" ","A","N","D"," ">>, <<" ","X","O","R"," ">>, <<"N","O","T"," ">> }

RECURSIVE Concat(_)
Concat(ps) == IF ps = <<>> THEN <<>> ELSE Head(ps) \o Concat(Tail(ps))

\* The texts of at most n pieces
Queries(lexicon, n) == { Concat(ps) : ps \in UNION { [1..k -> lexicon] : k \in 0..n } }

\* The catalog that data.load_items() hands to dex_adapter.init_adapter().
\* The hp of the second entry is a JSON string that is no number: load_items
\* keeps whatever the file holds.
Catalog ==
  << Item(<<"A","b">>, <<>>, <<"1">>, <<<<"F","i","r","e">>>>,
          (<<"h","p">> :> JNum(2)), <<>>, <<JStr(<<"2">>)>>, TRUE),
     Item(<<"a">>, <<"M","e","g","a">>, <<"1",".","0","1">>, <<<<"F","i","r","e">>, <<"W","a","t","e","r">>>>,
          (<<"h","p">> :> JStr(<<"x">>)), <<>>, <<>>, TRUE),
     Item(<<"B">>, <<>>, <<"2">>, <<<<"W","a","t","e","r">>>>,
          (<<"h","p">> :> JNum(1)), <<>>, <<JNum(1)>>, FALSE),
     Item(<<"c">>, <<>>, <<"3">>, <<>>,
          <<>>, <<>>, <<>>, FALSE) >>

\* The order-preserving sub-sequences of s with at most n entries
RECURSIVE SubSeqs(_, _)
SubSeqs(s, n) ==
  IF s = <<>> \/ n = 0 THEN { <<>> }
  ELSE SubSeqs(Tail(s), n) \cup { <<Head(s)>> \o t : t \in SubSeqs(Tail(s), n - 1) }

\* The keys filter_item is asked about: entries of the store and one that
\* is not in it
Keys == { <<"1">>, <<"1",".","0","1">>, <<"2">>, <<"9">> }

VARIABLES
  _items,         \* dex_adapter._items, the entry store
  filter_string,  \* the text of the search box
  op,             \* the last call made
  arg_items,      \* filter_items: its items argument
  arg_key,        \* filter_item: the key of its item_dict argument
  result,         \* the outcome of the last call
  modules,        \* the module objects that load_module returned, by holder
  arg_mod,        \* load_module: the document of the file it read
  arg_handle,     \* load_module, cached: the holder of the module object
  box_mgr,        \* main.py's BoxManager object
  _current_module_index  \* data._current_module_index

vars ==
  <<_items, filter_string, op, arg_items, arg_key, result, modules, arg_mod, arg_handle,
    box_mgr, _current_module_index>>

\* Who holds a module object: data._modules keeps the objects of one
\* load_modules() run; a second object of the same file exists as soon as
\* the modules are loaded again or a query names the module.
Handles == { "old", "new" }

\* BoxManager.__init__
BoxManager ==
  [visible_items |-> <<>>, current_box |-> 0, num_boxes |-> 1, current_filter |-> <<>>]

InitOn(store, queries) ==
  /\ _items = store
  /\ filter_string \in queries
  /\ op = "none"
  /\ arg_items = <<>>
  /\ arg_key = <<>>
  /\ result = Returned(<<>>)
  /\ modules = [h \in Handles |-> NoObject]
  /\ arg_mod = BlankModule
  /\ arg_handle = "old"
  /\ box_mgr = BoxManager
  /\ _current_module_index = 0

InitWith(queries) == InitOn(Catalog, queries)

Init == InitWith(Queries(Lexicon, MaxPieces))

InitSyntax == InitWith(Queries(SyntaxLexicon, MaxSyntaxPieces))

InitPrec == InitWith(Queries(PrecLexicon, MaxPrecPieces))

\* Each behaviour makes one call on the inputs Init drew (op = "none" until
\* then); the calls are independent of each other.

\* filter_items that removes the rejected entries from the store
FilterItems_consuming(items) ==
  /\ op = "none"
  /\ op' = "filter_items"
  /\ arg_items' = items
  /\ arg_key' = <<>>
  /\ result' = filter_items(_items, items, filter_string)
  /\ _items' = IF result'.raised THEN _items
               ELSE SelectSeq(_items, LAMBDA e : e \notin Range(items) \/ e \in Range(result'.value))
  /\ UNCHANGED <<filter_string, modules, arg_mod, arg_handle, box_mgr, _current_module_index>>

\* filter.filter_items(items, filter_string)
FilterItems(items) ==
  /\ op = "none"
  /\ op' = "filter_items"
  /\ arg_items' = items
  /\ arg_key' = <<>>
  /\ result' = filter_items(_items, items, filter_string)
  /\ UNCHANGED <<_items, filter_string, modules, arg_mod, arg_handle, box_mgr, _current_module_index>>

\* filter.filter_item({"key": key}, filter_string)
FilterItem(key) ==
  /\ op = "none"
  /\ op' = "filter_item"
  /\ arg_items' = <<>>
  /\ arg_key' = key
  /\ result' = filter_item(_items, key, filter_string)
  /\ UNCHANGED <<_items, filter_string, modules, arg_mod, arg_handle, box_mgr, _current_module_index>>

\* filter._compile(filter_string)
Compile ==
  /\ op = "none"
  /\ op' = "_compile"
  /\ arg_items' = <<>>
  /\ arg_key' = <<>>
  /\ result' = Bind(_compile(filter_string), LAMBDA r :
                    IF r.raised THEN Raised ELSE Returned(r.f))
  /\ UNCHANGED <<_items, filter_string, modules, arg_mod, arg_handle, box_mgr, _current_module_index>>

\* module_loader.compile_module_filter(filter_string)
CompileModuleFilter ==
  /\ op = "none"
  /\ op' = "compile_module_filter"
  /\ arg_items' = <<>>
  /\ arg_key' = <<>>
  /\ result' = Bind(compile_module_filter(filter_string), LAMBDA r :
                    IF r.raised THEN Raised ELSE Returned(r.f))
  /\ UNCHANGED <<_items, filter_string, modules, arg_mod, arg_handle, box_mgr, _current_module_index>>

Next ==
  \/ \E items \in SubSeqs(_items, MaxItems) : FilterItems(items)
  \/ \E key \in Keys : FilterItem(key)
  \/ Compile
  \/ CompileModuleFilter

\* The two compilers alone
NextCompile ==
  \/ Compile
  \/ CompileModuleFilter

Spec == Init /\ [][Next]_vars

SpecSyntax == InitSyntax /\ [][NextCompile]_vars

SpecPrec == InitPrec /\ [][NextCompile]_vars


\* ------------------------------------------------------------------------
\* Term queries: number ranges, categories, forms, evolutions, modules
\* ------------------------------------------------------------------------

\* An items file with two forms of one number (12 and 12.01), a variant
\* whose base is not in the file (20.01), category tags in mixed and upper
\* case, and evolution references of every kind: an identifier that is in
\* the file ("25", 25), one that is not ("26"), a name ("Raichu") and an
\* identifier with a blank in front (" 25").
TermCatalog ==
  load_items(
    << Item(<<"P","i","c","h","u">>, <<>>, <<"1","0">>, <<<<"E","l","e","c","t","r","i","c">>>>,
            <<>>, <<>>, <<JStr(<<"2","5">>), JStr(<<"2","6">>)>>, FALSE),
       Item(<<"B","u","t","t","e","r","f","r","e","e">>, <<>>, <<"1","2">>, <<<<"B","u","g">>, <<"F","l","y","i","n","g">>>>,
            <<>>, <<>>, <<JStr(<<"R","a","i","c","h","u">>)>>, FALSE),
       Item(<<"B","u","t","t","e","r","f","r","e","e">>, <<"G","m","a","x">>, <<"1","2",".","0","1">>, <<<<"B","u","g">>, <<"F","l","y","i","n","g">>>>,
            <<>>, <<>>, <<JNum(25)>>, FALSE),
       Item(<<"W","e","e","d","l","e">>, <<>>, <<"1","3">>, <<<<"B","U","G">>, <<"P","o","i","s","o","n">>>>,
            <<>>, <<>>, <<>>, FALSE),
       Item(<<"P","i","k","a","c","h","u">>, <<>>, <<"2","5">>, <<<<"E","l","e","c","t","r","i","c">>>>,
            <<>>, <<>>, <<JStr(<<"2","6">>)>>, FALSE),
       Item(<<"R","a","t","i","c","a","t","e">>, <<"A","l","o","l","a">>, <<"2","0",".","0","1">>, <<<<"D","a","r","k">>>>,
            <<>>, <<>>, <<JStr(<<" ","2","5">>)>>, FALSE) >>)

\* The ends of the number ranges asked for
RangeNumbers == { <<"9">>, <<"1","0">>, <<"1","2">>, <<"1","3">> }

\* #a, #af, #a-b and #a-bf
RangeQueries ==
  { <<"#">> \o a \o f : a \in RangeNumbers, f \in { <<>>, <<"f">> } }
    \cup { <<"#">> \o r[1] \o <<"-">> \o r[2] \o f :
             r \in RangeNumbers \X RangeNumbers, f \in { <<>>, <<"f">> } }

CategoryPrefixes == { <<"@">>, <<"c","a","t",":">>, <<"C","A","T",":">> }

CategoryTexts == { <<"b","u","g">>, <<"B","u","g">>, <<"B","U","G">>, <<"u","g">>, <<"y">>, <<"Y">>, <<"e","l","e">>, <<"x">> }

CategoryQueries == { p \o t : p \in CategoryPrefixes, t \in CategoryTexts }

FormPrefixes == { <<"f","o","r","m",":">>, <<"F","O","R","M",":">> }

FormKeywords ==
  { <<>>, <<"v","a","r","i","a","n","t">>, <<"V","a","r","i","a","n","t">>, <<"V","A","R","I","A","N","T">>, <<"b","a","s","e">>, <<"B","A","S","E">>, <<"a","l","l">>, <<"A","l","l">>,
    <<"a","n","y">>, <<"A","N","Y">>, <<"n","o","n","e">>, <<"N","o","n","e">>, <<"g","m","a","x">> }

FormQueries == { p \o t : p \in FormPrefixes, t \in FormKeywords }

EvolTexts ==
  { <<"p","i","k","a">>, <<"P","I","K","A">>, <<"P","i","k","a">>, <<"c","h","u">>, <<"r","a","i">>, <<"R","A","I">>, <<"2","5">>, <<"2","6">>, <<"2">>, <<"x">>, <<"p","i","c","h","u">> }

EvolQueries == { <<"+">> \o t : t \in EvolTexts }

\* Queries in front of a module term
ModuleRefBases == { <<"a">>, <<"N","O","T"," ","a">>, <<"a"," ","O","R"," ","b">>, <<"b"," ","X","O","R"," ","a">>, <<"#","1","2","f">>, <<"c","a","t",":","b","u","g">> }

\* Modules that cannot be resolved: no such file, a disabled module, and a
\* module whose filter string does not compile
UnresolvedModules == { <<"z","z">>, <<"o","f","f">>, <<"b","a","d">> }

ModulePrefixes == { <<"m","o","d","u","l","e",":">>, <<"M","O","D","U","L","E",":">> }

ModuleRefQueries ==
  { p \o n : p \in ModulePrefixes, n \in UnresolvedModules }
    \cup { x \o <<" ">> \o p \o n :
             x \in ModuleRefBases, p \in ModulePrefixes, n \in UnresolvedModules }
    \cup ModuleRefBases

TermQueries ==
  RangeQueries \cup CategoryQueries \cup FormQueries \cup EvolQueries \cup ModuleRefQueries

InitTerms == InitOn(TermCatalog, TermQueries)

NextTerms ==
  \/ \E items \in SubSeqs(_items, MaxItems) : FilterItems(items)
  \/ Compile

SpecTerms == InitTerms /\ [][NextTerms]_vars

\* ------------------------------------------------------------------------
\* Module rule documents
\* ------------------------------------------------------------------------

\* An items file around the border of the first two regions
RuleCatalog ==
  load_items(
    << Item(<<"B","u","l","b","a","s","a","u","r">>, <<>>, <<"1">>, <<>>, <<>>, <<>>, <<>>, FALSE),
       Item(<<"P","i","k","a","c","h","u">>, <<>>, <<"2","5">>, <<>>, <<>>, <<>>, <<>>, FALSE),
       Item(<<"P","i","k","a","c","h","u">>, <<"P","a","r","t","n","e","r">>, <<"2","5",".","1","5">>, <<>>, <<>>, <<>>, <<>>, FALSE),
       Item(<<"M","e","w">>, <<>>, <<"1","5","1">>, <<>>, <<>>, <<>>, <<>>, FALSE),
       Item(<<"M","e","w">>, <<"M","e","g","a">>, <<"1","5","1",".","0","1">>, <<>>, <<>>, <<>>, <<>>, FALSE),
       Item(<<"C","h","i","k","o","r","i","t","a">>, <<>>, <<"1","5","2">>, <<>>, <<>>, <<>>, <<>>, FALSE),
       Item(<<"C","e","l","e","b","i">>, <<"F","e","m","a","l","e">>, <<"2","5","1",".","0","1">>, <<>>, <<>>, <<>>, <<>>, FALSE),
       Item(<<"T","r","e","e","c","k","o">>, <<>>, <<"2","5","2">>, <<>>, <<>>, <<>>, <<>>, FALSE) >>)

Rule(key, inc) == [key |-> key, inc |-> inc]

RegionChoices ==
  { <<>>,
    << Rule(<<"K","a","n","t","o">>, FALSE) >>,
    << Rule(<<"K","a","n","t","o">>, TRUE), Rule(<<"J","o","h","t","o">>, FALSE) >>,
    << Rule(<<"J","o","h","t","o">>, FALSE), Rule(<<"K","a","n","t","o">>, FALSE), Rule(<<"O","r","r","e">>, FALSE) >> }

ConstraintChoices == { <<>>, <<" "," ">>, <<"c","h","u">>, <<"m","e","w"," ","O","R"," ","t","r","e","e">> }

FormChoices == { <<>>, << Rule(<<"M","e","g","a">>, FALSE), Rule(<<"P","a","r","t","n","e","r">>, TRUE) >> }

SpeciesChoices == { <<>>, << Rule(<<"P","i","k","a","c","h","u">>, FALSE), Rule(<<"C","e","l","e","b","i">>, FALSE) >> }

HcvSpecialChoices ==
  { <<>>, << Rule(<<"g","e","n","d","e","r","_","f","o","r","m","s">>, FALSE) >>,
    << Rule(<<"P","i","k","a","c","h","u","_","H","a","t">>, FALSE), Rule(<<"z","y","g","a","r","d","e">>, TRUE) >> }

HivSpecialChoices ==
  { <<>>, << Rule(<<"l","g","p","e","_","p","a","r","t","n","e","r">>, FALSE) >>, << Rule(<<"t","h","e","r","i","a","n">>, FALSE) >> }

RuleDocuments ==
  { [BlankModule EXCEPT !.enabled = FALSE] }
    \cup { [BlankModule EXCEPT !.filter_constraints = fc, !.regions = rg,
                               !.hcv_by_form_name = fm, !.hcv_by_species_name = sp,
                               !.hcv_special_handling = hc, !.hiv_item_by_form_name = fi,
                               !.hiv_special_handling = hv] :
             fc \in ConstraintChoices, rg \in RegionChoices, fm \in FormChoices,
             sp \in SpeciesChoices, hc \in HcvSpecialChoices, fi \in FormChoices,
             hv \in HivSpecialChoices }

\* The documents the cache is exercised on
CacheDocuments == { ModuleFiles[<<"c","a","u","g","h","t">>], ModuleFiles[<<"s","t","r","o","n","g">>], ModuleFiles[<<"o","f","f">>] }

\* The entries the module predicates are called on and whose marks are edited
CacheKeys == { <<"1">>, <<"1",".","0","1">> }

\* Most invocations of the compiled function for one identifier of one
\* module object
MaxInvocations == 2

\* h = load_module(file) for a file whose document is mod: the outcome of
\* the call and the holders after it
LoadModuleOutcome(mods, h, mod) ==
  Bind(LoadDocument(mod), LAMBDA md :
    IF md.raised THEN [result |-> Raised, modules |-> mods]
    ELSE IF md.none
      THEN [result |-> Returned(NoObject), modules |-> [mods EXCEPT ![h] = NoObject]]
      ELSE [result |-> Returned(ModuleObject(md)),
            modules |-> [mods EXCEPT ![h] = ModuleObject(md)]])

\* module_loader.load_module
LoadModule(h, mod) ==
  /\ op' = "load_module"
  /\ arg_items' = <<>>
  /\ arg_key' = <<>>
  /\ arg_mod' = mod
  /\ arg_handle' = h
  /\ result' = LoadModuleOutcome(modules, h, mod).result
  /\ modules' = LoadModuleOutcome(modules, h, mod).modules
  /\ UNCHANGED <<_items, filter_string, box_mgr, _current_module_index>>

\* modules[h]["filter_function"](item) for the entry of the store numbered key
CallCached(h, key) ==
  /\ ~modules[h].none
  /\ HasItem(_items, key)
  /\ key \in DOMAIN modules[h].cache \/ Invoked(modules[h], key) < MaxInvocations
  /\ op' = "cached"
  /\ arg_items' = <<>>
  /\ arg_key' = key
  /\ arg_handle' = h
  /\ result' = cached(_items, modules[h], GetItem(_items, key)).result
  /\ modules' = [modules EXCEPT ![h] = cached(_items, modules[h], GetItem(_items, key)).module]
  /\ UNCHANGED <<_items, filter_string, arg_mod, box_mgr, _current_module_index>>

\* dex_adapter.set_pokemon_caught(key, caught)
SetPokemonCaught(key, caught) ==
  /\ op' = "set_pokemon_caught"
  /\ arg_items' = <<>>
  /\ arg_key' = key
  /\ result' = Returned(<<>>)
  /\ _items' = set_pokemon_caught(_items, key, caught)
  /\ UNCHANGED <<filter_string, modules, arg_mod, arg_handle, box_mgr, _current_module_index>>

InitRules == InitOn(RuleCatalog, { <<>> })

\* Each behaviour loads one document
NextRules == op = "none" /\ \E mod \in RuleDocuments : LoadModule("new", mod)

SpecRules == InitRules /\ [][NextRules]_vars

InitCache == InitOn(Catalog, { <<>> })

NextCache ==
  \/ \E h \in Handles, mod \in CacheDocuments : LoadModule(h, mod)
  \/ \E h \in Handles, key \in CacheKeys : CallCached(h, key)
  \/ \E key \in CacheKeys, caught \in BOOLEAN : SetPokemonCaught(key, caught)

SpecCache == InitCache /\ [][NextCache]_vars

\* ------------------------------------------------------------------------
\* Stat queries
\* ------------------------------------------------------------------------

\* The value of a stat in the items file
Stat(name, n) == name :> JNum(n)

\* An items file whose entries hold all six canonical stats (total 600 in
\* two ways, 601 and 555), some of them, one as a JSON string (total 100),
\* a stat that is not canonical, also one named total, and no stat at all
StatCatalog ==
  load_items(
    << Item(<<"M","e","w">>, <<>>, <<"1","5","1">>, <<>>,
            Stat(<<"a","t","k">>, 100) @@ Stat(<<"d","e","f">>, 100) @@ Stat(<<"s","p","d">>, 100)
              @@ Stat(<<"s","p","a","t","k">>, 100) @@ Stat(<<"s","p","d","e","f">>, 100) @@ Stat(<<"h","p">>, 100),
            <<>>, <<>>, FALSE),
       Item(<<"B","l","i","s","s","e","y">>, <<>>, <<"2","4","2">>, <<>>,
            Stat(<<"a","t","k">>, 10) @@ Stat(<<"d","e","f">>, 10) @@ Stat(<<"s","p","d">>, 55)
              @@ Stat(<<"s","p","a","t","k">>, 75) @@ Stat(<<"s","p","d","e","f">>, 195) @@ Stat(<<"h","p">>, 255),
            <<>>, <<>>, FALSE),
       Item(<<"D","r","a","g","o","n","i","t","e">>, <<>>, <<"1","4","9">>, <<>>,
            Stat(<<"a","t","k">>, 134) @@ Stat(<<"d","e","f">>, 95) @@ Stat(<<"s","p","d">>, 80)
              @@ Stat(<<"s","p","a","t","k">>, 100) @@ Stat(<<"s","p","d","e","f">>, 100) @@ Stat(<<"h","p">>, 92),
            <<>>, <<>>, FALSE),
       Item(<<"S","h","e","d","i","n","j","a">>, <<>>, <<"2","9","2">>, <<>>,
            Stat(<<"a","t","k">>, 90) @@ Stat(<<"h","p">>, 1) @@ Stat(<<"s","p","e">>, 40) @@ Stat(<<"t","o","t","a","l">>, 600)
              @@ (<<"d","e","f">> :> JStr(<<"9">>)),
            <<>>, <<>>, FALSE),
       Item(<<"A","r","c","a","n","i","n","e">>, <<>>, <<"5","9">>, <<>>,
            Stat(<<"a","t","k">>, 110) @@ Stat(<<"d","e","f">>, 80) @@ Stat(<<"s","p","d">>, 95)
              @@ Stat(<<"s","p","a","t","k">>, 100) @@ Stat(<<"s","p","d","e","f">>, 80) @@ Stat(<<"h","p">>, 90)
              @@ Stat(<<"t","o","t","a","l">>, 0),
            <<>>, <<>>, FALSE),
       Item(<<"E","g","g">>, <<>>, <<"0">>, <<>>, Stat(<<"t","o","t","a","l">>, 600), <<>>, <<>>, FALSE),
       Item(<<"U","n","o","w","n">>, <<>>, <<"2","0","1">>, <<>>, <<>>, <<>>, <<>>, FALSE) >>)

StatPrefixes == { <<"s","t","a","t",":","t","o","t","a","l">>, <<"S","T","A","T",":","T","o","t","a","l">>, <<"S","t","a","t",":","T","O","T","A","L">> }

\* The targets v of the comparisons
StatTargets == { <<"0">>, <<"1","0","0">>, <<"5","5","5">>, <<"5","9","9">>, <<"6","0","0">>, <<"6","0","1">> }

StatQueries ==
  { p \o StatOps[k] \o v : p \in StatPrefixes, k \in DOMAIN StatOps, v \in StatTargets }

InitStats == InitOn(StatCatalog, StatQueries)

SpecStats == InitStats /\ [][NextTerms]_vars

\* ------------------------------------------------------------------------
\* Source queries: games and encounter methods
\* ------------------------------------------------------------------------

\* One element of an entry's games list
Game(game, encounter_methods) == [game |-> game, encounter_methods |-> encounter_methods]

\* An items file whose entries name games with dashes, blanks and capitals,
\* a game called like a method, a game without name, and methods in every
\* spelling of the walk group
SourceCatalog ==
  load_items(
    << Item(<<"P","i","d","g","e","y">>, <<>>, <<"1","6">>, <<>>, <<>>,
            << Game(<<"H","e","a","r","t","-","G","o","l","d">>, <<<<"G","r","a","s","s">>, <<"S","u","r","f">>>>), Game(<<"L","e","t","s"," ","G","o">>, <<<<"G","i","f","t">>>>) >>,
            <<>>, FALSE),
       Item(<<"R","a","t","t","a","t","a">>, <<>>, <<"1","9">>, <<>>, <<>>,
            << Game(<<"R","e","d">>, <<<<"T","a","l","l"," ","G","r","a","s","s">>>>), Game(<<"w","a","l","k">>, <<>>) >>,
            <<>>, FALSE),
       Item(<<"M","a","g","i","k","a","r","p">>, <<>>, <<"1","2","9">>, <<>>, <<>>,
            << Game(<<"X">>, <<<<"t","a","l","l","g","r","a","s","s">>, <<"O","l","d","-","R","o","d">>>>) >>,
            <<>>, FALSE),
       Item(<<"M","e","w">>, <<>>, <<"1","5","1">>, <<>>, <<>>, <<>>, <<>>, FALSE),
       Item(<<"E","e","v","e","e">>, <<>>, <<"1","3","3">>, <<>>, <<>>,
            << Game(<<>>, <<<<"G","I","F","T">>>>), Game(<<"S","u","r","f">>, <<<<"W","A","L","K">>>>) >>,
            <<>>, FALSE) >>)

\* The texts T asked for: no colon, and nothing the tokenizer splits
SourceTexts ==
  { <<"h","e","a","r","t","g","o","l","d">>, <<"H","e","a","r","t","-","G","o","l","d">>, <<"H","E","A","R","T","G","O","L","D">>, <<"g","r","a","s","s">>, <<"G","r","a","s","s">>, <<"t","a","l","l","g","r","a","s","s">>, <<"w","a","l","k">>,
    <<"s","u","r","f">>, <<"S","U","R","F">>, <<"o","l","d","-","r","o","d">>, <<"o","l","d","r","o","d">>, <<"l","e","t","s","g","o">>, <<"r","e","d">>, <<"x">>, <<"g","i","f","t">>, <<>>, <<"z","z">> }

SourceQueries ==
  { p \o t : p \in { <<"s","o","u","r","c","e",":">>, <<"S","O","U","R","C","E",":">>, <<"i","n",":">>, <<"m","e","t","h","o","d",":">> }, t \in SourceTexts }
    \cup { <<"i","n",":">> \o t \o <<" ","O","R"," ","m","e","t","h","o","d",":">> \o t : t \in SourceTexts }

InitSources == InitOn(SourceCatalog, SourceQueries)

SpecSources == InitSources /\ [][NextTerms]_vars

\* ------------------------------------------------------------------------
\* The two tokenizers
\* ------------------------------------------------------------------------

\* Longest text handed to the tokenizers, in pieces
MaxTokenPieces == 4

\* Pieces of the texts: a letter, an underscore, a blank, a tab, the
\* characters the tokenizers pad, one bar and two, and operator words in
\* three letter cases
TokenLexicon ==
  { <<"a">>, <<"_">>, <<" ">>, <<"\t">>, <<"(">>, <<")">>, <<"!">>, <<"|">>, <<"|","|">>, <<"o","r">>, <<"N","O","T">>, <<"X","o","r">> }

InitTokens == InitWith(Queries(TokenLexicon, MaxTokenPieces))

\* filter.tokenize(filter_string)
Tokenize ==
  /\ op = "none"
  /\ op' = "tokenize"
  /\ arg_items' = <<>>
  /\ arg_key' = <<>>
  /\ result' = Returned(tokenize(filter_string))
  /\ UNCHANGED <<_items, filter_string, modules, arg_mod, arg_handle, box_mgr, _current_module_index>>

\* module_loader.tokenize_code(filter_string)
TokenizeCode ==
  /\ op = "none"
  /\ op' = "tokenize_code"
  /\ arg_items' = <<>>
  /\ arg_key' = <<>>
  /\ result' = Returned(tokenize_code(filter_string))
  /\ UNCHANGED <<_items, filter_string, modules, arg_mod, arg_handle, box_mgr, _current_module_index>>

NextTokens ==
  \/ Tokenize
  \/ TokenizeCode

SpecTokens == InitTokens /\ [][NextTokens]_vars

\* ------------------------------------------------------------------------
\* Calls one after the other: queries, module predicates and entry edits
\* ------------------------------------------------------------------------

\* The queries of the search box while modules are loaded and entries edited
FrameQueries == { <<"N","O","T"," ","m","a","r","k">>, <<"a"," ","m","o","d","u","l","e",":","c","a","u","g","h","t">>, <<"m","o","d","u","l","e",":","s","t","r","o","n","g">>, <<"(">> }

\* The entry whose mark is edited and on which the module predicates are called
FrameKeys == { <<"1">> }

InitFrame == InitOn(Catalog, FrameQueries)

\* The call has returned: the main loop is ready for the next one
NextCall ==
  /\ op # "none"
  /\ op' = "none"
  /\ arg_items' = <<>>
  /\ arg_key' = <<>>
  /\ result' = Returned(<<>>)
  /\ arg_mod' = BlankModule
  /\ arg_handle' = "old"
  /\ UNCHANGED <<_items, filter_string, modules, box_mgr, _current_module_index>>

NextFrame ==
  \/ \E items \in SubSeqs(_items, MaxItems) : FilterItems(items)
  \/ \E key \in Keys : FilterItem(key)
  \/ Compile
  \/ \E h \in Handles, mod \in CacheDocuments : LoadModule(h, mod)
  \/ \E h \in Handles, key \in FrameKeys : CallCached(h, key)
  \/ \E key \in FrameKeys, caught \in BOOLEAN : SetPokemonCaught(key, caught)
  \/ NextCall

SpecFrame == InitFrame /\ [][NextFrame]_vars

\* ------------------------------------------------------------------------
\* Rule documents that switch the special cases
\* ------------------------------------------------------------------------

\* An entry that has a number, a name and a form label only
Form(number, name, form) == Item(name, form, number, <<>>, <<>>, <<>>, <<>>, FALSE)

\* An items file with the entries the special cases are about, next to
\* their base entries
SpecialCatalog ==
  load_items(
    << Form(<<"3">>, <<"V","e","n","u","s","a","u","r">>, <<>>),
       Form(<<"3",".","0","1">>, <<"V","e","n","u","s","a","u","r">>, <<FemaleGlyph>>),
       Form(<<"2","5">>, <<"P","i","k","a","c","h","u">>, <<>>),
       Form(<<"2","5",".","0","1">>, <<"P","i","k","a","c","h","u">>, <<"R","o","c","k"," ","S","t","a","r">>),
       Form(<<"2","5",".","0","6">>, <<"P","i","k","a","c","h","u">>, <<"C","o","s","p","l","a","y">>),
       Form(<<"2","5",".","0","7">>, <<"P","i","k","a","c","h","u">>, <<"O","r","i","g","i","n","a","l"," ","C","a","p">>),
       Form(<<"2","5",".","1","5">>, <<"P","i","k","a","c","h","u">>, <<"P","a","r","t","n","e","r">>),
       Form(<<"1","3","3",".","0","1">>, <<"E","e","v","e","e">>, <<"P","a","r","t","n","e","r">>),
       Form(<<"6","4","1",".","0","1">>, <<"T","o","r","n","a","d","u","s">>, <<"T","h","e","r","i","a","n">>),
       Form(<<"6","4","6">>, <<"K","y","u","r","e","m">>, <<>>),
       Form(<<"6","4","6",".","0","1">>, <<"K","y","u","r","e","m">>, <<"W","h","i","t","e">>),
       Form(<<"6","4","6",".","0","2">>, <<"K","y","u","r","e","m">>, <<"B","l","a","c","k">>),
       Form(<<"6","7","0",".","0","5">>, <<"F","l","o","e","t","t","e">>, <<"E","t","e","r","n","a","l">>),
       Form(<<"6","7","8",".","0","1">>, <<"M","e","o","w","s","t","i","c">>, <<"F","e","m","a","l","e">>),
       Form(<<"7","1","8">>, <<"Z","y","g","a","r","d","e">>, <<>>),
       Form(<<"7","1","8",".","0","1">>, <<"Z","y","g","a","r","d","e">>, <<"1","0","%">>),
       Form(<<"7","1","8",".","0","2">>, <<"Z","y","g","a","r","d","e">>, <<"5","0","%"," ","P","o","w","e","r"," ","C","o","n","s","t","r","u","c","t">>),
       Form(<<"7","7","4">>, <<"M","i","n","i","o","r">>, <<"M","e","t","e","o","r">>),
       Form(<<"7","7","4",".","0","1">>, <<"M","i","n","i","o","r">>, <<"M","e","t","e","o","r"," ","O","r","a","n","g","e">>),
       Form(<<"7","7","4",".","0","7">>, <<"M","i","n","i","o","r">>, <<"R","e","d"," ","C","o","r","e">>),
       Form(<<"8","0","0",".","0","1">>, <<"N","e","c","r","o","z","m","a">>, <<"D","u","s","k"," ","M","a","n","e">>),
       Form(<<"8","0","0",".","0","2">>, <<"N","e","c","r","o","z","m","a">>, <<"D","a","w","n"," ","W","i","n","g","s">>),
       Form(<<"8","6","9">>, <<"A","l","c","r","e","m","i","e">>, <<>>),
       Form(<<"8","6","9",".","0","6">>, <<"A","l","c","r","e","m","i","e">>, <<"R","i","b","b","o","n"," ","S","w","e","e","t">>),
       Form(<<"8","6","9",".","0","7">>, <<"A","l","c","r","e","m","i","e">>, <<"R","u","b","y"," ","C","r","e","a","m">>),
       Form(<<"8","6","9",".","6","2">>, <<"A","l","c","r","e","m","i","e">>, <<"R","a","i","n","b","o","w"," ","S","w","i","r","l">>),
       Form(<<"8","9","8",".","0","1">>, <<"C","a","l","y","r","e","x">>, <<"I","c","e"," ","R","i","d","e","r">>),
       Form(<<"8","9","8",".","0","2">>, <<"C","a","l","y","r","e","x">>, <<"S","h","a","d","o","w"," ","R","i","d","e","r">>) >>)

\* The keys of the special_handling table of home_compatible_variants
HcvSpecialKeys ==
  { <<"g","e","n","d","e","r","_","c","o","s","m","e","t","i","c">>, <<"g","e","n","d","e","r","_","f","o","r","m","s">>, <<"a","l","c","r","e","m","i","e","_","s","w","e","e","t","s">>, <<"a","l","c","r","e","m","i","e","_","f","u","l","l">>, <<"z","y","g","a","r","d","e">>,
    <<"z","y","g","a","r","d","e","_","p","o","w","e","r","_","c","o","n","s","t","r","u","c","t">>, <<"m","i","n","i","o","r","_","c","o","r","e">>, <<"p","i","k","a","c","h","u","_","h","a","t">> }

\* The keys of the special_handling table of home_incompatible_variants
HivSpecialKeys ==
  { <<"f","u","s","i","o","n">>, <<"p","i","k","a","c","h","u","_","c","o","s","p","l","a","y">>, <<"l","g","p","e","_","p","a","r","t","n","e","r">>, <<"f","l","o","e","t","t","e","_","e","t","e","r","n","a","l">>, <<"m","i","n","i","o","r","_","m","e","t","e","o","r">>,
    <<"t","h","e","r","i","a","n">> }

\* Documents with at most one key of each table, enabled or disabled, the
\* key in lower case or capitalised
SpecialDocuments ==
  { [BlankModule EXCEPT !.hcv_special_handling = hc, !.hiv_special_handling = hv] :
      hc \in { <<>> } \cup { << Rule(k, inc) >> : k \in HcvSpecialKeys, inc \in BOOLEAN }
                      \cup { << Rule(<<ToUpper[k[1]]>> \o Tail(k), FALSE) >> : k \in HcvSpecialKeys },
      hv \in { <<>> } \cup { << Rule(k, inc) >> : k \in HivSpecialKeys, inc \in BOOLEAN }
                      \cup { << Rule(<<ToUpper[k[1]]>> \o Tail(k), FALSE) >> : k \in HivSpecialKeys } }

InitSpecial == InitOn(SpecialCatalog, { <<>> })

\* Each behaviour loads one document
NextSpecial == op = "none" /\ \E mod \in SpecialDocuments : LoadModule("new", mod)

SpecSpecial == InitSpecial /\ [][NextSpecial]_vars
\* ------------------------------------------------------------------------
\* box_manager.py: the boxes of the visible entries and the moves between them
\* ------------------------------------------------------------------------

\* config.BOX_SIZE
BOX_SIZE == 30

\* config.TOTAL_POKEMON
TOTAL_POKEMON == 1025

Max(a, b) == IF a >= b THEN a ELSE b

Min(a, b) == IF a <= b THEN a ELSE b

\* The modules directory of the box specification: "old" is the file of a
\* module that hides nothing, "new" the file of one that hides Kanto
BoxModuleFiles ==
  [old |-> BlankModule,
   new |-> [BlankModule EXCEPT !.regions = << [key |-> <<"K","a","n","t","o">>, inc |-> FALSE] >>]]

\* data.load_modules: every file of the directory is loaded, in the order
\* of the file names
RECURSIVE load_modules_from(_, _)
load_modules_from(mods, files) ==
  IF files = <<>> THEN mods
  ELSE load_modules_from(LoadModuleOutcome(mods, Head(files), BoxModuleFiles[Head(files)]).modules,
                         Tail(files))

load_modules(mods) == load_modules_from(mods, <<"new", "old">>)

\* data._modules: the objects of the files that load_module did not answer
\* with None
_modules(mods) == SelectSeq(<<"new", "old">>, LAMBDA h : ~mods[h].none)

\* [item for item in items if module_filter_func(item)]: the calls are made
\* one after the other, each on the module object the call before it left,
\* and the first exception ends the comprehension.  The sequence is walked
\* by halves, the front half before the back half.
RECURSIVE ModuleItems(_, _, _)
ModuleItems(store, m, items) ==
  IF items = <<>> THEN [raised |-> FALSE, items |-> <<>>, module |-> m]
  ELSE IF Len(items) = 1
    THEN Bind(cached(store, m, items[1]), LAMBDA c :
           [raised |-> c.result.raised,
            items |-> IF ~c.result.raised /\ c.result.value THEN items ELSE <<>>,
            module |-> c.module])
    ELSE Bind(ModuleItems(store, m, SubSeq(items, 1, Len(items) \div 2)), LAMBDA front :
           IF front.raised THEN front
           ELSE Bind(ModuleItems(store, front.module,
                                 SubSeq(items, Len(items) \div 2 + 1, Len(items))),
                     LAMBDA back :
                  [back EXCEPT !.items = IF back.raised THEN <<>>
                                         ELSE front.items \o back.items]))

\* data.filter_items_by_module(_items, search_query) with the modules mods
\* loaded and the module numbered index current: the entries it returns and
\* the module objects after the call
filter_items_by_module(store, mods, index, search_query) ==
  Bind(IF _modules(mods) = <<>> \/ index < 0 THEN "" ELSE _modules(mods)[index + 1], LAMBDA h :
  Bind(IF h = "" THEN [raised |-> FALSE, items |-> store, module |-> NoObject]
       ELSE ModuleItems(store, mods[h], store), LAMBDA mi :
    [modules |-> IF h = "" THEN mods ELSE [mods EXCEPT ![h] = mi.module],
     result |-> IF mi.raised THEN Raised
                ELSE IF search_query # <<>>
                  THEN filter_items(store, mi.items, search_query)
                  ELSE Returned(mi.items)]))

\* BoxManager.refresh on the object b: the object and the module objects
\* after the call; an exception of the filter leaves the call before the
\* object is written
refresh(b, store, mods, index) ==
  Bind(filter_items_by_module(store, mods, index, b.current_filter), LAMBDA f :
    IF f.result.raised THEN [raised |-> TRUE, box |-> b, modules |-> f.modules]
    ELSE Bind(Max(1, (Len(f.result.value) + BOX_SIZE - 1) \div BOX_SIZE), LAMBDA n :
           [raised |-> FALSE, modules |-> f.modules,
            box |-> [b EXCEPT !.visible_items = f.result.value,
                              !.num_boxes = n,
                              !.current_box = IF b.current_box >= n THEN n - 1
                                              ELSE b.current_box]]))

\* int(str(number).split('.')[0]); the numbers of the entries are decimal texts
IntOfBase(number) ==
  Bind(BaseOf(number), LAMBDA b :
    IF b # <<>> /\ AllDigits(b) THEN [raised |-> FALSE, v |-> DigitsVal(b)]
    ELSE [raised |-> TRUE, v |-> 0])

\* The index, counted from 0, of the first visible entry whose base number
\* is pokemon_number, or -1
FoundIndex(visible_items, pokemon_number) ==
  Bind({ k \in DOMAIN visible_items :
           /\ ~IntOfBase(visible_items[k].number).raised
           /\ IntOfBase(visible_items[k].number).v = pokemon_number }, LAMBDA hit :
    IF hit = {} THEN 0 - 1 ELSE (CHOOSE k \in hit : \A j \in hit : k <= j) - 1)

\* BoxManager.jump_to_pokemon
jump_to_pokemon(b, pokemon_number) ==
  Bind(FoundIndex(b.visible_items, pokemon_number), LAMBDA found_index :
    IF found_index # 0 - 1
      THEN [b EXCEPT !.current_box = found_index \div BOX_SIZE]
      ELSE [b EXCEPT !.current_box = (pokemon_number - 1) \div BOX_SIZE])

\* BoxManager.set_current_box
set_current_box(b, box_index) ==
  IF 0 <= box_index /\ box_index < b.num_boxes
    THEN [b EXCEPT !.current_box = box_index]
    ELSE b

\* BoxManager.next_box
next_box(b) == [b EXCEPT !.current_box = (b.current_box + 1) % b.num_boxes]

\* BoxManager.prev_box
prev_box(b) == [b EXCEPT !.current_box = (b.current_box - 1) % b.num_boxes]

\* dex_adapter.get_region_defs(): the region table of the data directory
get_region_defs == REGION_RANGES

\* sorted(region_defs.items(), key=lambda item: item[1][0])
RECURSIVE sorted_regions(_)
sorted_regions(defs) ==
  IF defs = <<>> THEN <<>>
  ELSE Bind(sorted_regions(SubSeq(defs, 1, Len(defs) - 1)), LAMBDA front :
       Bind(defs[Len(defs)], LAMBDA r :
         SelectSeq(front, LAMBDA x : x.start <= r.start) \o <<r>>
           \o SelectSeq(front, LAMBDA x : x.start > r.start)))

\* The index, counted from 1, of the first region of the sorted table that
\* holds the last number of the current box, or 0
current_region_index(b, regions) ==
  Bind(Min(b.current_box * BOX_SIZE + BOX_SIZE, TOTAL_POKEMON), LAMBDA last_num :
  Bind({ i \in DOMAIN regions :
           regions[i].start <= last_num /\ last_num <= regions[i].end }, LAMBDA hit :
    IF hit = {} THEN 0 ELSE CHOOSE i \in hit : \A j \in hit : i <= j))

\* BoxManager.jump_to_prev_region
jump_to_prev_region(b) ==
  Bind(sorted_regions(get_region_defs), LAMBDA regions :
  Bind(current_region_index(b, regions), LAMBDA i :
    IF i > 1
      THEN [b EXCEPT !.current_box = (regions[i - 1].start - 1) \div BOX_SIZE]
      ELSE b))

\* BoxManager.jump_to_next_region
jump_to_next_region(b) ==
  Bind(sorted_regions(get_region_defs), LAMBDA regions :
  Bind(current_region_index(b, regions), LAMBDA i :
    IF i >= 1 /\ i < Len(regions)
      THEN [b EXCEPT !.current_box = (regions[i + 1].start - 1) \div BOX_SIZE]
      ELSE b))

\* The name of the entry numbered k of the box catalog
BoxName(k) == IF k <= 2 \/ k = 152 THEN <<"A","a">> ELSE IF k = 252 THEN <<"C","c">> ELSE <<"B","b">>

\* The numbers of the entries of the box catalog: more than one box of
\* Kanto, one entry of Johto and one of Hoenn
BoxNumbers == [k \in 1..(BOX_SIZE + 3) |->
                 IF k <= BOX_SIZE + 1 THEN k ELSE IF k = BOX_SIZE + 2 THEN 152 ELSE 252]

\* The items file of the box specification
BoxCatalog ==
  load_items([k \in DOMAIN BoxNumbers |->
                Form(IntToStr(BoxNumbers[k]), BoxName(BoxNumbers[k]), <<>>)])

\* The texts of the search box that reach set_filter
BoxFilters == { <<>>, <<" ","a"," ">>, <<"z","z">> }

\* The suggestions that can be clicked: entries of the store
BoxSuggestions == { <<"1">>, <<"3","1">>, <<"1","5","2">>, <<"2","5","2">> }

\* The box indices asked of set_current_box
BoxIndices == (0 - 1)..2

InitBoxes == InitOn(BoxCatalog, { <<>> })

\* A call on the BoxManager object: b is the object after it, r the outcome
\* of the refresh it ended with
BoxCall(name, key, r) ==
  /\ op' = name
  /\ arg_items' = <<>>
  /\ arg_key' = key
  /\ result' = IF r.raised THEN Raised ELSE Returned(<<>>)
  /\ box_mgr' = r.box
  /\ modules' = r.modules
  /\ UNCHANGED <<_items, arg_mod, arg_handle>>

\* A move between the boxes, which refreshes nothing
BoxMove(name, key, b) ==
  BoxCall(name, key, [raised |-> FALSE, box |-> b, modules |-> modules])
  /\ UNCHANGED <<filter_string, _current_module_index>>

\* box_mgr = BoxManager(); box_mgr.initialize() at the start of main()
Initialize ==
  /\ op = "none"
  /\ Bind(load_modules(modules), LAMBDA mods :
       Bind(refresh(box_mgr, _items, mods, _current_module_index), LAMBDA r :
         BoxCall("initialize", <<>>, r)))
  /\ UNCHANGED <<filter_string, _current_module_index>>

\* box_mgr.current_filter = ""; box_mgr.refresh() of the highlight mode
Refresh ==
  /\ op # "none"
  /\ Bind(refresh([box_mgr EXCEPT !.current_filter = <<>>], _items, modules,
                  _current_module_index), LAMBDA r :
       BoxCall("refresh", <<>>, r))
  /\ UNCHANGED <<filter_string, _current_module_index>>

\* box_mgr.set_filter(search_input.text)
SetFilter(new_filter) ==
  /\ op # "none"
  /\ filter_string' = new_filter
  /\ Bind(refresh([box_mgr EXCEPT !.current_filter = Strip(new_filter),
                                  !.current_box = 0],
                  _items, modules, _current_module_index), LAMBDA r :
       BoxCall("set_filter", <<>>, r))
  /\ UNCHANGED _current_module_index

\* data.toggle_module
toggle_module(mods, index) ==
  IF _modules(mods) # <<>> THEN (index + 1) % Len(_modules(mods)) ELSE index

\* box_mgr.switch_module()
SwitchModule ==
  /\ op # "none"
  /\ _current_module_index' = toggle_module(modules, _current_module_index)
  /\ Bind(refresh([box_mgr EXCEPT !.current_filter = <<>>, !.current_box = 0],
                  _items, modules, toggle_module(modules, _current_module_index)),
          LAMBDA r : BoxCall("switch_module", <<>>, r))
  /\ UNCHANGED filter_string

\* box_mgr.jump_to_pokemon(int(str(idx).split('.')[0])) for a suggestion idx
JumpToPokemon(idx) ==
  /\ op # "none"
  /\ ~IntOfBase(idx).raised
  /\ BoxMove("jump_to_pokemon", idx, jump_to_pokemon(box_mgr, IntOfBase(idx).v))

\* box_mgr.set_current_box(box_index)
SetCurrentBox(box_index) ==
  /\ op # "none"
  /\ BoxMove("set_current_box", <<>>, set_current_box(box_mgr, box_index))

\* box_mgr.next_box()
NextBox ==
  /\ op # "none"
  /\ BoxMove("next_box", <<>>, next_box(box_mgr))

\* box_mgr.prev_box()
PrevBox ==
  /\ op # "none"
  /\ BoxMove("prev_box", <<>>, prev_box(box_mgr))

\* box_mgr.jump_to_prev_region()
JumpToPrevRegion ==
  /\ op # "none"
  /\ BoxMove("jump_to_prev_region", <<>>, jump_to_prev_region(box_mgr))

\* box_mgr.jump_to_next_region()
JumpToNextRegion ==
  /\ op # "none"
  /\ BoxMove("jump_to_next_region", <<>>, jump_to_next_region(box_mgr))

NextBoxes ==
  \/ Initialize
  \/ Refresh
  \/ \E new_filter \in BoxFilters : SetFilter(new_filter)
  \/ SwitchModule
  \/ \E idx \in BoxSuggestions : JumpToPokemon(idx)
  \/ \E box_index \in BoxIndices : SetCurrentBox(box_index)
  \/ NextBox
  \/ PrevBox
  \/ JumpToPrevRegion
  \/ JumpToNextRegion

SpecBoxes == InitBoxes /\ [][NextBoxes]_vars

\* ------------------------------------------------------------------------
\* Properties
\* ------------------------------------------------------------------------

\* The text is empty or holds white space only
IsBlank(s) == \A k \in DOMAIN s : s[k] \in Whitespace

\* What a bare word t means on an entry: t occurs in the lower-cased name
NameHolds(t, e) == Contains(Lower(e.name), t)

\* The compiled predicate in `result` gives, on every entry of the catalog,
\* the verdict P gives
Accepts(P(_)) ==
  /\ ~result.raised
  /\ \A k \in DOMAIN Catalog :
       Eval(_items, result.value, Catalog[k]) = BoolV(P(Catalog[k]))

\* C1: filter_items on a non-blank query that does not start with "module:"
\* and that does not compile returns the entries it was given, all of them
\* and in their order.
C1_UncompilableQueryReturnsAll ==
  (/\ op = "filter_items"
   /\ ~IsBlank(filter_string)
   /\ ~StartsWith(filter_string, <<"m","o","d","u","l","e",":">>)
   /\ _compile(filter_string).raised)
  => result = Returned(arg_items)

\* filter_items was given two entries that the word a rejects and the query
\* "(a", whose parenthesis is never closed, and returned both
C1_Witness ==
  /\ op = "filter_items"
  /\ filter_string = <<"(","a">>
  /\ arg_items = <<Catalog[3], Catalog[4]>>
  /\ result = Returned(arg_items)

\* C2: filter_items never raises, whatever the entries and the query.
C2_FilterItemsNeverRaises == op = "filter_items" => ~result.raised

\* C3: filter_item never raises; it returns False when the query does not
\* compile, when the key is not in the entry store and when the predicate
\* fails on the entry; it returns True only when the query compiled and the
\* predicate accepted the entry.
C3_FilterItemTolerant ==
  op = "filter_item" =>
    LET c == _compile(filter_string)
        known == HasItem(_items, arg_key)
    IN /\ ~result.raised
       /\ result.value \in BOOLEAN
       /\ c.raised => result.value = FALSE
       /\ ~known => result.value = FALSE
       /\ (~c.raised /\ known
             /\ Eval(_items, c.f, GetItem(_items, arg_key)) = V_Raise)
          => result.value = FALSE
       /\ result.value = TRUE =>
            /\ ~c.raised
            /\ known
            /\ Eval(_items, c.f, GetItem(_items, arg_key)) = V_True

\* filter_item was asked about the entry whose hp is no number under a query
\* that compiles and compares hp, and answered False
C3_Witness ==
  /\ op = "filter_item"
  /\ filter_string = <<"s","t","a","t",":","h","p",">","1">>
  /\ arg_key = <<"1",".","0","1">>
  /\ ~_compile(filter_string).raised
  /\ Eval(_items, _compile(filter_string).f, GetItem(_items, arg_key)) = V_Raise
  /\ result = Returned(FALSE)

\* C4: filter_items on a query that is empty or all white space returns the
\* entries it was given, unchanged.
C4_BlankQueryReturnsAll ==
  (op = "filter_items" /\ IsBlank(filter_string)) => result = Returned(arg_items)

\* filter_items was given two entries and a query of two spaces, and
\* returned both
C4_Witness ==
  /\ op = "filter_items"
  /\ filter_string = <<" "," ">>
  /\ Len(arg_items) = 2
  /\ result = Returned(arg_items)

\* C5: n >= 1 negation tokens (! or NOT) in front of the word a compile, in
\* either compiler, to a when n is even and to the negation of a when n is
\* odd.
C5_NegationParity ==
  LET toks == tokenize(filter_string)
      n == Len(toks) - 1
  IN (/\ op \in {"_compile", "compile_module_filter"}
      /\ n >= 1
      /\ \A k \in 1..n : toks[k] \in {<<"!">>, <<"N","O","T">>}
      /\ toks[n + 1] = <<"a">>)
     => Accepts(LAMBDA e : NameHolds(<<"a">>, e) = (n % 2 = 0))

\* The words the precedence queries are built from
PrecTerms == { <<"a">>, <<"b">> }

\* C6: NOT binds tighter than AND, AND tighter than XOR, XOR tighter than OR,
\* and adjacent terms are conjoined: for all words a, b, c the predicate
\* compiled from `a OR b AND c` is a OR (b AND c), from `a b` is a AND b,
\* from `a XOR b AND c` is a XOR (b AND c), from `a OR b XOR c` is
\* a OR (b XOR c), and from `NOT a b` is (NOT a) AND b, on every entry.
C6_Precedence ==
  op = "_compile" =>
    \A a, b, c \in PrecTerms :
      /\ filter_string = a \o <<" ","O","R"," ">> \o b \o <<" ","A","N","D"," ">> \o c
           => Accepts(LAMBDA e : NameHolds(a, e) \/ (NameHolds(b, e) /\ NameHolds(c, e)))
      /\ filter_string = a \o <<" ">> \o b
           => Accepts(LAMBDA e : NameHolds(a, e) /\ NameHolds(b, e))
      /\ filter_string = a \o <<" ","X","O","R"," ">> \o b \o <<" ","A","N","D"," ">> \o c
           => Accepts(LAMBDA e : NameHolds(a, e) # (NameHolds(b, e) /\ NameHolds(c, e)))
      /\ filter_string = a \o <<" ","O","R"," ">> \o b \o <<" ","X","O","R"," ">> \o c
           => Accepts(LAMBDA e : NameHolds(a, e) \/ (NameHolds(b, e) # NameHolds(c, e)))
      /\ filter_string = <<"N","O","T"," ">> \o a \o <<" ">> \o b
           => Accepts(LAMBDA e : ~NameHolds(a, e) /\ NameHolds(b, e))

\* `a OR b AND b` was compiled and accepts the entry named "a", which
\* (a OR b) AND b rejects
C6_Witness ==
  /\ op = "_compile"
  /\ filter_string = <<"a"," ","O","R"," ","b"," ","A","N","D"," ","b">>
  /\ ~result.raised
  /\ NameHolds(<<"a">>, Catalog[2]) /\ ~NameHolds(<<"b">>, Catalog[2])
  /\ Eval(_items, result.value, Catalog[2]) = V_True

\* The words the letter-case queries are built from
CaseTerms == { <<"a">> }

\* The compiled predicate in `result` and the one compiled from q give the
\* same verdict on every entry of the catalog
AgreesWith(q) ==
  LET u == _compile(q)
  IN /\ ~u.raised
     /\ ~result.raised
     /\ \A k \in DOMAIN Catalog :
          Eval(_items, result.value, Catalog[k]) = Eval(_items, u.f, Catalog[k])

\* C7: the operator words are recognised in any letter case: for all words
\* a and b, `a or b` compiles to a predicate that agrees on every entry with
\* the one `a OR b` compiles to, and `not a` to one that agrees with that of
\* `NOT a`.
C7_OperatorWordsAnyCase ==
  op = "_compile" =>
    \A a, b \in CaseTerms :
      /\ filter_string = a \o <<" ","o","r"," ">> \o b => AgreesWith(a \o <<" ","O","R"," ">> \o b)
      /\ filter_string = <<"n","o","t"," ">> \o a => AgreesWith(<<"N","O","T"," ">> \o a)

\* The nesting depth after s read from depth d, or -1 once a ")" closes
\* nothing
RECURSIVE ParenDepth(_, _)
ParenDepth(s, d) ==
  IF s = <<>> THEN d
  ELSE IF Head(s) = "(" THEN ParenDepth(Tail(s), d + 1)
  ELSE IF Head(s) = ")" THEN (IF d = 0 THEN -1 ELSE ParenDepth(Tail(s), d - 1))
  ELSE ParenDepth(Tail(s), d)

\* C8: _compile fails for every query whose parentheses are unbalanced.
C8_UnbalancedParenthesesFail ==
  (op = "_compile" /\ ParenDepth(filter_string, 0) # 0) => result.raised

\* C9: _compile fails for every query whose last token is an operator.
C9_TrailingOperatorFails ==
  LET toks == tokenize(filter_string)
  IN (/\ op = "_compile"
      /\ toks # <<>>
      /\ toks[Len(toks)] \in {<<"A","N","D">>, <<"&","&">>, <<"O","R">>, <<"|","|">>, <<"X","O","R">>, <<"N","O","T">>, <<"!">>})
     => result.raised

\* C10: a query without tokens compiles, in either compiler, to the
\* predicate that accepts every entry.
C10_NoTokensAcceptAll ==
  (/\ op \in {"_compile", "compile_module_filter"}
   /\ tokenize(filter_string) = <<>>)
  => Accepts(LAMBDA e : TRUE)


\* The compiled predicate in `result` gives, on every entry of the store,
\* the verdict P gives
Gives(P(_)) ==
  /\ ~result.raised
  /\ \A k \in DOMAIN _items :
       Eval(_items, result.value, _items[k]) = BoolV(P(_items[k]))

\* The number in front of the dot of an entry's identifier
BaseNumber(e) == DigitsVal(BaseOf(e.number))

\* The identifier has a variant suffix
HasSuffix(e) == \E k \in DOMAIN e.number : e.number[k] = "."

\* C11: a number-range term that ends in f accepts exactly the entries whose
\* base number lies in the inclusive range, variants included: for all
\* numbers a and b, `#af` accepts the entries of base a and `#a-bf` those of
\* a base from a to b.
C11_RangeWithFormsCoversVariants ==
  op = "_compile" =>
    \A a, b \in RangeNumbers :
      /\ filter_string = <<"#">> \o a \o <<"f">>
           => Gives(LAMBDA e : BaseNumber(e) = DigitsVal(a))
      /\ filter_string = <<"#">> \o a \o <<"-">> \o b \o <<"f">>
           => Gives(LAMBDA e : DigitsVal(a) <= BaseNumber(e) /\ BaseNumber(e) <= DigitsVal(b))

\* C12: a number-range term that does not end in f accepts exactly the
\* entries without variant suffix whose number lies in the inclusive range:
\* for all numbers a and b, `#a` accepts the entry a alone and `#a-b` the
\* entries from a to b that have no dot.
C12_RangeWithoutFormsExcludesVariants ==
  op = "_compile" =>
    \A a, b \in RangeNumbers :
      /\ filter_string = <<"#">> \o a
           => Gives(LAMBDA e : ~HasSuffix(e) /\ BaseNumber(e) = DigitsVal(a))
      /\ filter_string = <<"#">> \o a \o <<"-">> \o b
           => Gives(LAMBDA e : /\ ~HasSuffix(e)
                               /\ DigitsVal(a) <= BaseNumber(e)
                               /\ BaseNumber(e) <= DigitsVal(b))

\* `#10-13` was compiled; it accepts the entry 12 and rejects its variant
\* 12.01, which lies inside the range
C12_Witness ==
  /\ op = "_compile"
  /\ filter_string = <<"#","1","0","-","1","3">>
  /\ ~result.raised
  /\ _items[2].number = <<"1","2">> /\ Eval(_items, result.value, _items[2]) = V_True
  /\ _items[3].number = <<"1","2",".","0","1">> /\ Eval(_items, result.value, _items[3]) = V_False

\* The regions of the document that are disabled and in the region table
DisabledRegions(mod) ==
  { r \in Range(REGION_RANGES) :
      \E j \in DOMAIN mod.regions : ~mod.regions[j].inc /\ mod.regions[j].key = r.name }

\* C13: the predicate of a module rejects every entry whose base number lies
\* in the range of a region the document disables, the variants of the
\* region's last number included.
C13_DisabledRegionRejected ==
  (op = "load_module" /\ ~result.raised /\ ~result.value.none) =>
    \A r \in DisabledRegions(arg_mod) :
      \A k \in DOMAIN _items :
        (r.start <= BaseNumber(_items[k]) /\ BaseNumber(_items[k]) <= r.end)
          => Eval(_items, result.value.func, _items[k]) = V_False

\* C14: each module object invokes its compiled function at most once per
\* entry identifier, and a call of the module predicate returns the boolean
\* that the cache holds for the identifier.
C14_InvokedOncePerIdentifier ==
  /\ \A h \in Handles : \A key \in DOMAIN modules[h].invoked : modules[h].invoked[key] <= 1
  /\ op = "cached" =>
       /\ ~result.raised
       /\ arg_key \in DOMAIN modules[arg_handle].cache
       /\ result.value = modules[arg_handle].cache[arg_key]

\* C15: while a module object lives, a verdict in its cache is neither
\* removed nor changed, and a call for an identifier that is in the cache
\* returns that verdict, whatever the entry's attributes are by then; a
\* load_module call creates an object with an empty cache and leaves the
\* other objects as they are; and the first call of an object for an
\* identifier gives the verdict of the entry as it is at that call.
C15_CacheKeptUntilReload ==
  [][\A h \in Handles :
       /\ ~(op' = "load_module" /\ arg_handle' = h)
            => \A key \in DOMAIN modules[h].cache :
                 /\ key \in DOMAIN modules'[h].cache
                 /\ modules'[h].cache[key] = modules[h].cache[key]
       /\ (op' = "cached" /\ arg_handle' = h /\ arg_key' \in DOMAIN modules[h].cache)
            => result' = Returned(modules[h].cache[arg_key'])
       /\ (op' = "load_module" /\ arg_handle' = h /\ ~result'.raised)
            => /\ modules'[h].cache = <<>>
               /\ \A g \in Handles \ {h} : modules'[g] = modules[g]
       /\ (op' = "cached" /\ arg_handle' = h /\ arg_key' \notin DOMAIN modules[h].cache
             /\ ~result'.raised)
            => result'.value =
                 (Eval(_items, modules[h].func, GetItem(_items, arg_key')) = V_True)
    ]_vars

\* The entry 1 was marked as caught after the old object of the module that
\* excludes caught entries had accepted it: the old object still accepts it,
\* the object loaded afterwards rejects it
C15_Witness ==
  /\ op = "cached"
  /\ arg_handle = "old"
  /\ arg_key = <<"1">>
  /\ GetItem(_items, <<"1">>).marks.flag
  /\ ~modules["old"].none /\ ~modules["new"].none
  /\ modules["old"].func = modules["new"].func
  /\ Eval(_items, modules["old"].func, GetItem(_items, <<"1">>)) = V_False
  /\ <<"1">> \in DOMAIN modules["new"].cache /\ modules["new"].cache[<<"1">>] = FALSE
  /\ result = Returned(TRUE)

\* The entry matches the exclusion term: the predicate compiled from the
\* term alone accepts it
TermMatches(t, e) == Eval(_items, compile_module_filter(t).f, e) = V_True

\* C16: the filter string of a document is empty exactly when no exclusion
\* term was collected and is `NOT (t1 OR ... OR tn)` over the collected terms
\* otherwise; the module predicate accepts an entry iff the entry matches
\* none of the collected terms, hence every entry when there is no term.
C16_ModuleExcludesUnionOfTerms ==
  (op = "load_module" /\ arg_mod.enabled /\ ~result.raised) =>
    LET tokens == ModuleTokens(arg_mod)
        m == result.value
    IN /\ ~m.none
       /\ (m.filter_string = <<>>) <=> (tokens = <<>>)
       /\ tokens # <<>> => m.filter_string = <<"N","O","T"," ","(">> \o Join(tokens, <<" ","O","R"," ">>) \o <<")">>
       /\ \A k \in DOMAIN _items :
            Eval(_items, m.func, _items[k])
              = BoolV(~\E j \in DOMAIN tokens : TermMatches(tokens[j], _items[k]))

\* A document with a free-form constraint, a disabled region and a form
\* rule was loaded; its predicate rejects Bulbasaur (region), Pikachu
\* (constraint) and the Mega form of Mew (form rule) and accepts Treecko
C16_Witness ==
  /\ op = "load_module"
  /\ arg_mod.filter_constraints = <<"c","h","u">>
  /\ arg_mod.regions = << Rule(<<"K","a","n","t","o">>, FALSE) >>
  /\ ModuleTokens(arg_mod) = << <<"(","c","h","u",")">>, <<"#","1","-","1","5","1","f">>, <<"f","o","r","m",":","m","e","g","a">> >>
  /\ ~result.raised
  /\ result.value.filter_string = <<"N","O","T"," ","(","(","c","h","u",")"," ","O","R"," ","#","1","-","1","5","1","f"," ","O","R"," ","f","o","r","m",":","m","e","g","a",")">>
  /\ Eval(_items, result.value.func, _items[1]) = V_False
  /\ Eval(_items, result.value.func, _items[2]) = V_False
  /\ Eval(_items, result.value.func, _items[5]) = V_False
  /\ Eval(_items, result.value.func, _items[8]) = V_True

\* The compiled predicate in `result` and the one compiled from q give the
\* same verdict on every entry of the store
AgreesOnStore(q) ==
  /\ ~_compile(q).raised
  /\ ~result.raised
  /\ \A k \in DOMAIN _items :
       Eval(_items, result.value, _items[k]) = Eval(_items, _compile(q).f, _items[k])

\* C17: a module term whose module cannot be resolved (no such file, a
\* disabled module, a module that does not compile) holds of every entry:
\* `X module:n` accepts what X accepts, `module:n` alone accepts every
\* entry, and filter_items on `module:n` returns the entries it was given.
C17_UnresolvedModuleMatchesAll ==
  \A p \in ModulePrefixes, n \in UnresolvedModules :
    /\ (op = "_compile" /\ filter_string = p \o n) => Gives(LAMBDA e : TRUE)
    /\ op = "_compile" =>
         \A x \in ModuleRefBases :
           filter_string = x \o <<" ">> \o p \o n => AgreesOnStore(x)
    /\ (op = "filter_items" /\ filter_string = p \o n) => result = Returned(arg_items)

\* `a module:bad` was compiled, where the filter string of the module bad
\* does not compile; the predicate accepts Pikachu and rejects Pichu, as
\* `a` does
C17_Witness ==
  /\ op = "_compile"
  /\ filter_string = <<"a"," ","m","o","d","u","l","e",":","b","a","d">>
  /\ load_module(<<"b","a","d">>).raised
  /\ _load_module(<<"b","a","d">>).none
  /\ ~result.raised
  /\ Eval(_items, result.value, _items[5]) = V_True
  /\ Eval(_items, result.value, _items[1]) = V_False

\* C18: `@T` and `cat:T` give the same verdict for every text T in any
\* letter case: whether T, letter case ignored, occurs in a category of the
\* entry.
C18_CategoryPrefixesAgree ==
  op = "_compile" =>
    \A p \in { <<"@">>, <<"c","a","t",":">> }, t \in CategoryTexts :
      filter_string = p \o t
        => Gives(LAMBDA e : \E k \in DOMAIN e.categories :
                              Contains(Lower(e.categories[k]), Lower(t)))

\* Another entry of the store has the base number of e
SharesBase(e) ==
  \E k \in DOMAIN _items :
    _items[k].number # e.number /\ BaseOf(_items[k].number) = BaseOf(e.number)

\* C19: the form keywords, in any letter case: `variant` and the bare
\* `form:` hold iff the identifier has a dot, `base` iff it has none and the
\* entry has an alternate form, `all` and `any` iff it has an alternate
\* form, `none` iff it has none.
C19_FormKeywords ==
  op = "_compile" =>
    \A p \in FormPrefixes, t \in FormKeywords :
      filter_string = p \o t =>
        /\ Lower(t) \in { <<>>, <<"v","a","r","i","a","n","t">> } => Gives(LAMBDA e : HasSuffix(e))
        /\ Lower(t) = <<"b","a","s","e">> => Gives(LAMBDA e : ~HasSuffix(e) /\ SharesBase(e))
        /\ Lower(t) \in { <<"a","l","l">>, <<"a","n","y">> } => Gives(LAMBDA e : SharesBase(e))
        /\ Lower(t) = <<"n","o","n","e">> => Gives(LAMBDA e : ~SharesBase(e))

\* `form:BASE` was compiled; it accepts 12, which has the variant 12.01,
\* and rejects 12.01 and the entry 10, which has no other form
C19_Witness ==
  /\ op = "_compile"
  /\ filter_string = <<"f","o","r","m",":","B","A","S","E">>
  /\ ~result.raised
  /\ Eval(_items, result.value, _items[2]) = V_True
  /\ Eval(_items, result.value, _items[3]) = V_False
  /\ _items[1].number = <<"1","0">> /\ Eval(_items, result.value, _items[1]) = V_False

\* The reference names an entry of the store by its identifier
Resolves(ref) == \E k \in DOMAIN _items : _items[k].number = StrOf(ref)

StatOrZero(e, name) ==
  IF name \notin DOMAIN e.stats THEN 0
  ELSE IF e.stats[name].isnum THEN e.stats[name].n
  ELSE DigitsVal(e.stats[name].text)

\* The sum of the six canonical stats
CanonicalTotal(e) ==
  StatOrZero(e, <<"a","t","k">>) + StatOrZero(e, <<"d","e","f">>) + StatOrZero(e, <<"s","p","d">>)
    + StatOrZero(e, <<"s","p","a","t","k">>) + StatOrZero(e, <<"s","p","d","e","f">>) + StatOrZero(e, <<"h","p">>)

\* a <o> b for the comparison written o
Compares(a, o, b) ==
  CASE o = <<"<","=">> -> a <= b
    [] o = <<">","=">> -> a >= b
    [] o = <<"<">> -> a < b
    [] o = <<">">> -> a > b
    [] o = <<"=">> -> a = b

\* C21: `stat:total<op><v>` accepts exactly the entries whose six canonical
\* stats (atk, def, spd, spatk, spdef, hp; a missing one counts as 0) sum to
\* a number that stands in the relation op to v, for op in <=, >=, <, >, =;
\* so an entry whose six stats are 100 each matches `stat:total>=600` and
\* `stat:total=600` and matches neither `stat:total>600` nor `stat:total<600`.
C21_StatTotal ==
  op = "_compile" =>
    \A p \in StatPrefixes, o \in Range(StatOps), v \in StatTargets :
      filter_string = p \o o \o v
        => Gives(LAMBDA e : Compares(CanonicalTotal(e), o, DigitsVal(v)))

\* `stat:total>=600` was compiled: it accepts the entry whose six stats are
\* 100 each and the entry of total 601, and rejects the entries of total 599
\* and of no stat at all
C21_Witness ==
  /\ op = "_compile"
  /\ filter_string = <<"s","t","a","t",":","t","o","t","a","l",">","=","6","0","0">>
  /\ ~result.raised
  /\ \A k \in DOMAIN TotalStats : _items[1].stats[TotalStats[k]] = JNum(100)
  /\ Eval(_items, result.value, _items[1]) = V_True
  /\ CanonicalTotal(_items[3]) = 601 /\ Eval(_items, result.value, _items[3]) = V_True
  /\ CanonicalTotal(_items[5]) = 555 /\ Eval(_items, result.value, _items[5]) = V_False
  /\ _items[7].stats = <<>> /\ Eval(_items, result.value, _items[7]) = V_False

\* A game name as the claim normalizes it: lower case, no blank and no dash
GameNorm(t) == SelectSeq(Lower(t), LAMBDA c : c \notin {" ", "-"})

\* A method as the claim normalizes it: lower case, grass and tallgrass
\* standing for walk
MethodNorm(t) ==
  IF Lower(t) \in { <<"g","r","a","s","s">>, <<"t","a","l","l","g","r","a","s","s">> } THEN <<"w","a","l","k">> ELSE Lower(t)

\* T is the name of one of the entry's games or a method of one of them
FromSource(e, t) ==
  \E k \in DOMAIN e.games :
    \/ GameNorm(e.games[k].game) = GameNorm(t)
    \/ \E j \in DOMAIN e.games[k].encounter_methods :
         MethodNorm(e.games[k].encounter_methods[j]) = MethodNorm(t)

\* C22: for every text T without a colon, `source:T` and `in:T OR method:T`
\* accept the same entries: those with a game whose normalized name
\* (lower case, blanks and dashes removed) equals the normalized T, or with
\* a game one of whose encounter methods equals T after method
\* normalization (lower case, grass and tallgrass mapped to walk).
C22_SourceIsGameOrMethod ==
  op = "_compile" =>
    \A t \in SourceTexts :
      (filter_string \in { <<"s","o","u","r","c","e",":">> \o t, <<"S","O","U","R","C","E",":">> \o t, <<"i","n",":">> \o t \o <<" ","O","R"," ","m","e","t","h","o","d",":">> \o t })
        => Gives(LAMBDA e : FromSource(e, t))

\* `source:grass` was compiled: it accepts the entry with the method Grass,
\* the entry with the method tallgrass and the entry with the method WALK,
\* and rejects the entry whose method is spelled Tall Grass and the entry
\* without games
C22_Witness ==
  /\ op = "_compile"
  /\ filter_string = <<"s","o","u","r","c","e",":","g","r","a","s","s">>
  /\ ~result.raised
  /\ Eval(_items, result.value, _items[1]) = V_True
  /\ Eval(_items, result.value, _items[3]) = V_True
  /\ Eval(_items, result.value, _items[5]) = V_True
  /\ _items[2].games[1].encounter_methods = <<<<"T","a","l","l"," ","G","r","a","s","s">>>>
  /\ Eval(_items, result.value, _items[2]) = V_False
  /\ _items[4].games = <<>> /\ Eval(_items, result.value, _items[4]) = V_False

\* The characters that separate tokens
Blank == { " ", "\t" }

\* The operator word, in any letter case, that starts the text s as a word
\* of its own: prev, the character in front of s, and the character after
\* the word are no word characters.  The empty text if there is none.
LeadingWord(s, prev) ==
  LET fits(n) == /\ n <= Len(s)
                 /\ Upper(SubSeq(s, 1, n)) \in { <<"O","R">>, <<"N","O","T">>, <<"X","O","R">> }
                 /\ (prev = "" \/ prev \notin WordChars)
                 /\ (n = Len(s) \/ s[n + 1] \notin WordChars)
  IN IF fits(2) THEN SubSeq(s, 1, 2) ELSE IF fits(3) THEN SubSeq(s, 1, 3) ELSE <<>>

\* The tokens of a text as the claim describes them, read from left to
\* right: a parenthesis, a `!`, a `||` and an operator word each are a token
\* of their own and end the token collected so far (cur), a blank ends it,
\* and every other character extends it.
RECURSIVE Lexemes(_, _, _)
Lexemes(s, prev, cur) ==
  LET done == IF cur = <<>> THEN <<>> ELSE <<cur>>
      word == LeadingWord(s, prev)
  IN IF s = <<>> THEN done
     ELSE IF Head(s) \in Blank THEN done \o Lexemes(Tail(s), Head(s), <<>>)
     ELSE IF Head(s) \in { "(", ")", "!" }
       THEN done \o << <<Head(s)>> >> \o Lexemes(Tail(s), Head(s), <<>>)
     ELSE IF Len(s) >= 2 /\ s[1] = "|" /\ s[2] = "|"
       THEN done \o << <<"|","|">> >> \o Lexemes(SubSeq(s, 3, Len(s)), "|", <<>>)
     ELSE IF word # <<>>
       THEN done \o << word >> \o Lexemes(SubSeq(s, Len(word) + 1, Len(s)), s[Len(word)], <<>>)
     ELSE Lexemes(Tail(s), Head(s), cur \o <<Head(s)>>)

\* C23: tokenize and tokenize_code return, for every text, a sequence of
\* tokens none of which is empty or holds a blank, in which every
\* parenthesis, every `!`, every `||` and every operator word OR, NOT, XOR
\* in any letter case is a token of its own, also when it was glued to the
\* text around it; a text that is empty or all blanks gives no token.
C23_TokensStandAlone ==
  op \in { "tokenize", "tokenize_code" } =>
    /\ ~result.raised
    /\ \A k \in DOMAIN result.value :
         /\ result.value[k] # <<>>
         /\ \A j \in DOMAIN result.value[k] : result.value[k][j] \notin Blank
    /\ result.value = Lexemes(filter_string, "", <<>>)
    /\ (\A j \in DOMAIN filter_string : filter_string[j] \in Blank) => result.value = <<>>

\* `a||(Xor` was tokenized: the bars, the parenthesis and the word that were
\* glued to each other are tokens of their own
C23_Witness ==
  /\ op = "tokenize"
  /\ filter_string = <<"a","|","|","(","X","o","r">>
  /\ result = Returned(<< <<"a">>, <<"|","|">>, <<"(">>, <<"X","o","r">> >>)

\* The calls that evaluate a query or a predicate
EvaluationCalls == { "filter_items", "filter_item", "_compile", "cached" }

\* C24: evaluation is read-only on the entry store: a call of filter_items,
\* of filter_item, of the compiler or of a module predicate leaves the store
\* as it is, with its length, its order and every attribute of every entry,
\* and leaves the sequence handed to filter_items a sub-sequence of that
\* store; a call of a module predicate changes nothing of the module objects
\* but the cache of its own object, and the other calls change no module
\* object at all.
C24_EvaluationReadOnly ==
  [][op' \in EvaluationCalls =>
       /\ _items' = _items
       /\ arg_items' \in SubSeqs(_items', MaxItems)
       /\ \A h \in Handles :
            IF op' = "cached" /\ arg_handle' = h
              THEN modules'[h] = [modules[h] EXCEPT !.cache = modules'[h].cache,
                                                    !.invoked = modules'[h].invoked]
              ELSE modules'[h] = modules[h]
    ]_vars

\* filter_items has rejected an entry of the list it was given, on a store
\* one entry of which had been marked as caught, while one module object
\* holds a verdict in its cache
C24_Witness ==
  /\ op = "filter_items"
  /\ filter_string = <<"N","O","T"," ","m","a","r","k">>
  /\ GetItem(_items, <<"1">>).marks.flag
  /\ ~result.raised
  /\ arg_items # <<>> /\ Len(result.value) < Len(arg_items)
  /\ ~modules["old"].none /\ <<"1">> \in DOMAIN modules["old"].cache

\* The query holds a module: term
HasModuleTerm(q) ==
  \E k \in DOMAIN tokenize(q) : StartsWith(Lower(tokenize(q)[k]), <<"m","o","d","u","l","e",":">>)

\* C25: the module compiler and the live-query compiler implement one
\* language: for every query without module: term, either both fail or both
\* succeed, and when both succeed their predicates give the same verdict on
\* every entry.
C25_CompilersAgree ==
  (op \in { "_compile", "compile_module_filter" } /\ ~HasModuleTerm(filter_string)) =>
    LET live == _compile(filter_string)
        code == compile_module_filter(filter_string)
    IN /\ result.raised = (IF op = "_compile" THEN live.raised ELSE code.raised)
       /\ live.raised = code.raised
       /\ ~live.raised =>
            \A k \in DOMAIN _items :
              Eval(_items, live.f, _items[k]) = Eval(_items, code.f, _items[k])

\* The terms X written after the module term
ComposedTerms == { <<"a">>, <<"#","1">> }

\* C26: a module: term composes with the terms after it: for the module m,
\* which resolves, and every term X, filter_items(E, `module:m X`) returns
\* the entries of E, in their order, that the predicate of m accepts and
\* that X accepts.
C26_ModuleTermComposes ==
  op = "filter_items" =>
    \A x \in ComposedTerms :
      filter_string = <<"m","o","d","u","l","e",":","m"," ">> \o x =>
        /\ ~load_module(<<"m">>).none
        /\ result = Returned(SelectSeq(arg_items, LAMBDA e :
                      /\ Eval(_items, load_module(<<"m">>).filter_function, e) = V_True
                      /\ Eval(_items, _compile(x).f, e) = V_True))

\* The keys of the two special-case tables that the document disables, in
\* lower case
DisabledSpecial(mod) ==
  { Lower(mod.hcv_special_handling[j].key) :
      j \in { i \in DOMAIN mod.hcv_special_handling : ~mod.hcv_special_handling[i].inc } }
  \cup { Lower(mod.hiv_special_handling[j].key) :
           j \in { i \in DOMAIN mod.hiv_special_handling : ~mod.hiv_special_handling[i].inc } }

\* The form label of the entry holds the text, in any letter case
FormHolds(e, t) == Contains(Lower(e.form), t)

\* The identifier of the entry, as hundredths: 25.15 is 2515
Hundredths(e) ==
  IF HasSuffix(e) THEN 100 * BaseNumber(e) + DigitsVal(SplitOn(e.number, ".")[2])
  ELSE 100 * BaseNumber(e)

\* The entries that the predefined terms of a special case name
Named(key, e) ==
  CASE key = <<"g","e","n","d","e","r","_","c","o","s","m","e","t","i","c">> -> FemaleGlyph \in Range(e.form)
    [] key = <<"g","e","n","d","e","r","_","f","o","r","m","s">> -> FemaleGlyph \in Range(e.form) \/ FormHolds(e, <<"f","e","m","a","l","e">>)
    [] key = <<"a","l","c","r","e","m","i","e","_","s","w","e","e","t","s">> -> 86901 <= Hundredths(e) /\ Hundredths(e) <= 86906
    [] key = <<"a","l","c","r","e","m","i","e","_","f","u","l","l">> -> 86907 <= Hundredths(e) /\ Hundredths(e) <= 86962
    [] key = <<"z","y","g","a","r","d","e">> -> NameHolds(<<"z","y","g","a","r","d","e">>, e) /\ HasSuffix(e)
    [] key = <<"z","y","g","a","r","d","e","_","p","o","w","e","r","_","c","o","n","s","t","r","u","c","t">> -> NameHolds(<<"z","y","g","a","r","d","e">>, e) /\ FormHolds(e, <<"c","o","n","s","t","r","u","c","t">>)
    [] key = <<"m","i","n","i","o","r","_","c","o","r","e">> ->
         NameHolds(<<"m","i","n","i","o","r">>, e) /\ ~FormHolds(e, <<"m","e","t","e","o","r">>) /\ HasSuffix(e)
    [] key = <<"p","i","k","a","c","h","u","_","h","a","t">> -> NameHolds(<<"p","i","k","a","c","h","u">>, e) /\ FormHolds(e, <<"c","a","p">>)
    [] key = <<"f","u","s","i","o","n">> -> Hundredths(e) \in { 64601, 64602, 80001, 80002, 89801, 89802 }
    [] key = <<"p","i","k","a","c","h","u","_","c","o","s","p","l","a","y">> -> 2501 <= Hundredths(e) /\ Hundredths(e) <= 2506
    [] key = <<"l","g","p","e","_","p","a","r","t","n","e","r">> -> Hundredths(e) \in { 2515, 13301 }
    [] key = <<"f","l","o","e","t","t","e","_","e","t","e","r","n","a","l">> -> Hundredths(e) = 67005
    [] key = <<"m","i","n","i","o","r","_","m","e","t","e","o","r">> -> FormHolds(e, <<"m","e","t","e","o","r">>) /\ HasSuffix(e)
    [] key = <<"t","h","e","r","i","a","n">> -> FormHolds(e, <<"t","h","e","r","i","a","n">>)
    [] OTHER -> FALSE

\* C27: the predicate of a module rejects every entry that the predefined
\* terms of a special case name when the document disables the key of that
\* case: with lgpe_partner disabled the entries 25.15 and 133.01, with fusion
\* disabled the entries 646.01, 646.02, 800.01, 800.02, 898.01 and 898.02.
C27_SpecialCasesRejected ==
  (op = "load_module" /\ ~result.raised /\ ~result.value.none) =>
    \A key \in DisabledSpecial(arg_mod) :
      \A k \in DOMAIN _items :
        Named(key, _items[k]) => Eval(_items, result.value.func, _items[k]) = V_False

\* C28: filter_items(E, q) is a sub-sequence of E that keeps the order of E,
\* with no entry added, repeated or moved, and filtering is idempotent:
\* filter_items(filter_items(E, q), q) equals filter_items(E, q).
C28_SubsequenceAndIdempotent ==
  op = "filter_items" =>
    /\ ~result.raised
    /\ result.value \in SubSeqs(arg_items, Len(arg_items))
    /\ filter_items(_items, result.value, filter_string) = result

\* ceil(n / d) for a natural number n and a positive d
CeilDiv(n, d) == CHOOSE q \in 0..n : q * d >= n /\ (q = 0 \/ (q - 1) * d < n)

\* C29: after refresh and after every later call of set_filter,
\* switch_module, next_box, prev_box, set_current_box, jump_to_pokemon,
\* jump_to_prev_region and jump_to_next_region, 0 <= current_box < num_boxes
\* holds with num_boxes = max(1, ceil(len(visible_items) / box_size)), and
\* set_filter and switch_module leave current_box at 0.
C29_CurrentBoxInRange ==
  op # "none" =>
    /\ 0 <= box_mgr.current_box
    /\ box_mgr.current_box < box_mgr.num_boxes
    /\ box_mgr.num_boxes = Max(1, CeilDiv(Len(box_mgr.visible_items), BOX_SIZE))
    /\ op \in { "set_filter", "switch_module" } => box_mgr.current_box = 0

\* The steps of the parser: every call of one of its five functions and
\* every iteration of one of its four loops counts one.  A call that raises
\* ends the count.
RECURSIVE or_steps(_, _)
RECURSIVE not_steps(_, _)

\* _parse_primary called at i
primary_steps(toks, i) ==
  IF i < Len(toks) /\ Tok(toks, i) = <<"(">> THEN 1 + or_steps(toks, i + 1) ELSE 1

\* _parse_not called at i: one iteration of the while loop for each token of
\* the run of negations
not_steps(toks, i) ==
  IF i < Len(toks) /\ IsNegation(Tok(toks, i))
    THEN 1 + (SkipNegations(toks, i) - i) + not_steps(toks, SkipNegations(toks, i))
    ELSE 1 + primary_steps(toks, i)

\* The while loop of _parse_and entered at i
RECURSIVE and_loop_steps(_, _)
and_loop_steps(toks, i) ==
  IF i < Len(toks) /\ Tok(toks, i) \notin {<<")">>, <<"O","R">>, <<"|","|">>, <<"X","O","R">>}
    THEN IF Upper(Tok(toks, i)) \in {<<"A","N","D">>, <<"&","&">>}
           THEN 1 + and_loop_steps(toks, i + 1)
           ELSE 1 + not_steps(toks, i)
                  + (IF _parse_not(toks, i).raised THEN 0
                     ELSE and_loop_steps(toks, _parse_not(toks, i).i))
    ELSE 0

\* _parse_and called at i
and_steps(toks, i) ==
  1 + not_steps(toks, i)
    + (IF _parse_not(toks, i).raised THEN 0 ELSE and_loop_steps(toks, _parse_not(toks, i).i))

\* The while loop of _parse_xor entered at i
RECURSIVE xor_loop_steps(_, _)
xor_loop_steps(toks, i) ==
  IF i < Len(toks) /\ Upper(Tok(toks, i)) = <<"X","O","R">>
    THEN 1 + and_steps(toks, i + 1)
           + (IF _parse_and(toks, i + 1).raised THEN 0
              ELSE xor_loop_steps(toks, _parse_and(toks, i + 1).i))
    ELSE 0

\* _parse_xor called at i
xor_steps(toks, i) ==
  1 + and_steps(toks, i)
    + (IF _parse_and(toks, i).raised THEN 0 ELSE xor_loop_steps(toks, _parse_and(toks, i).i))

\* The while loop of _parse_or entered at i
RECURSIVE or_loop_steps(_, _)
or_loop_steps(toks, i) ==
  IF i < Len(toks) /\ Upper(Tok(toks, i)) \in {<<"O","R">>, <<"|","|">>}
    THEN 1 + xor_steps(toks, i + 1)
           + (IF _parse_xor(toks, i + 1).raised THEN 0
              ELSE or_loop_steps(toks, _parse_xor(toks, i + 1).i))
    ELSE 0

\* _parse_or called at i
or_steps(toks, i) ==
  1 + xor_steps(toks, i)
    + (IF _parse_xor(toks, i).raised THEN 0 ELSE or_loop_steps(toks, _parse_xor(toks, i).i))

\* The call r of a parser function at i raised, or it returned an index
\* beyond i and within the tokens
Advances(toks, i, r) == r.raised \/ (i < r.i /\ r.i <= Len(toks))

\* C30: compilation terminates.  Each of the five parser functions, called
\* at any index of the tokens, raises or returns a larger index, and each
\* iteration of the OR, XOR, AND and negation loops moves the index forward;
\* _compile ends with a predicate only when all tokens are consumed, and the
\* number of steps is bounded by the number of tokens: at most five, the
\* depth of the descent, for each token and five for the end of the tokens.
C30_ParserTerminates ==
  op = "_compile" =>
    LET toks == tokenize(filter_string) IN
      /\ \A i \in 0..Len(toks) :
           /\ Advances(toks, i, _parse_primary(toks, i))
           /\ Advances(toks, i, _parse_not(toks, i))
           /\ Advances(toks, i, _parse_and(toks, i))
           /\ Advances(toks, i, _parse_xor(toks, i))
           /\ Advances(toks, i, _parse_or(toks, i))
           /\ (i < Len(toks) /\ IsNegation(Tok(toks, i))) => SkipNegations(toks, i) > i
      /\ ~result.raised => _parse_or(toks, 0).i = Len(toks)
      /\ or_steps(toks, 0) <= 5 * (Len(toks) + 1)

\* A query with a negation and an explicit conjunction compiles, in more
\* steps than it has tokens
C30_Witness ==
  /\ op = "_compile"
  /\ filter_string = <<"!","a","&","&","a">>
  /\ ~result.raised
  /\ or_steps(tokenize(filter_string), 0) > Len(tokenize(filter_string))
====
